---- MODULE Spec2Model ----
(***************************************************************************)
(* A model of the log-score analysis of story_predictor (src/analysis.py). *)
(*                                                                         *)
(* Numbers.  A probability is an integer number of thousandths (800 is     *)
(* 0.8), a log score or an average is an integer number of millionths of   *)
(* a nat (ln 0.8 = -0.223144 is -223144).  math.log is the table LnMicro,  *)
(* rounded to the nearest millionth; np.mean is the sum of the items       *)
(* divided by the count, rounded down to a millionth, and NaN on an empty  *)
(* list.  The rounding of a float addition (below 10^-8 millionths) is     *)
(* beneath this resolution; the averages are kept a second time, in        *)
(* avg_float64, as the doubles np.mean returns, bit for bit.               *)
(*                                                                         *)
(* Dictionaries.  A Python dict is a function whose DOMAIN is its key set; *)
(* `k in d` is k \in DOMAIN d.  The iteration order of results is the      *)
(* sequence results_order; every other dict of analyze_predictions is      *)
(* filled in that order, and is read back in that order.                   *)
(***************************************************************************)
EXTENDS Integers, Sequences, FiniteSets, TLC

VARIABLES
    \* ---- inputs of analyze_predictions (src/analysis.py:38)
    results,               \* story id -> story record (a dict of optional keys)
    results_order,         \* the iteration order of results.items()
    flash_forecasts,       \* story id -> (question index string -> probability)
    flash_lite_forecasts,  \* the same for the second model
    \* ---- position in analyze_predictions
    pc,                    \* "story", "question", "model_avg", "tag_avg", "done"; "raised"
                           \* when an exception has left the call
    story_pos,             \* 1-based position of the for loop of line 51
    question_idx,          \* question_idx of the for loop of line 67
    \* ---- locals of analyze_predictions
    all_scores,            \* line 40
    story_scores,          \* line 46, a defaultdict(list)
    story_titles,          \* line 47
    story_tags,            \* line 48
    story_avg_scores,      \* line 95
    model_avg_scores,      \* line 101
    tag_scores,            \* line 107, a defaultdict(list)
    tag_sources,           \* history: the story whose average each tag_scores item is
    tag_avg_scores,        \* line 113
    float64,               \* the scores and the averages once more, as the doubles
                           \* they are: [all_scores, story_scores, story_avg_scores,
                           \* model_avg_scores, tag_scores, tag_avg_scores]
    \* ---- one pair of calls of calculate_log_score (src/analysis.py:10)
    call,                  \* [p1, p2, actual, ret]: ret is <<>> before the calls
    \* ---- the story ranking of main and main_2 (src/analysis.py:207, 242)
    entry,                 \* "none" before the ranking, then "main" or "main_2"
    top_stories,           \* the most predictable stories, as (story id, score) pairs
    bottom_stories,        \* the least predictable stories, as (story id, score) pairs
    \* ---- one run of main of an upstream stage (create_questions.py,
    \* ---- predict_questions.py, resolve_questions.py, tagging.py)
    stage,                 \* the stage that runs, "none" when none does
    metadata,              \* the stories of the run: a list of [id, questions]
    tasks,                 \* the list tasks: a [data, question_idx] per process_story call
    responses,             \* what the remote model answers to each task's calls
    files,                 \* the story ids whose story file can be opened
    late,                  \* the tasks that have run since an exception ended main
    task_pc,               \* per task: "created", "checking", "calling", "returned",
                           \* "collected"; "raised" when an exception has left
                           \* process_story, "cancelled" when main has ended first
    semaphore,             \* the counter _value of asyncio.Semaphore(max_concurrent_tasks)
    gate,                  \* the tasks of a large run, counted by where they are:
                           \* [created, waiting, woken, inside, late, done, raised,
                           \* cancelled]; woken are the waiters a release has handed
                           \* a slot to and that have not run since, late those of
                           \* the tasks inside that got in after main had ended
    completed,             \* the results as_completed has not handed out yet, oldest first
    gathered,              \* the list main appends to: questions, forecasts,
                           \* results or new_metadata
    main_pc,               \* "start", "loop" while main gathers, "written" after
                           \* the dump, "raised" when an exception has ended main
    written,               \* the content of the output file
    writes,                \* history: the number of times the output file was opened for writing
    example_log            \* the example_forecasts file forecast_question appends to

vars == <<results, results_order, flash_forecasts, flash_lite_forecasts,
          pc, story_pos, question_idx,
          all_scores, story_scores, story_titles, story_tags,
          story_avg_scores, model_avg_scores, tag_scores, tag_sources,
          tag_avg_scores, float64, call, entry, top_stories, bottom_stories,
          stage, metadata, tasks, responses, files, late, task_pc, semaphore, gate,
          completed, gathered, main_pc, written, writes, example_log>>

inputVars == <<results, results_order, flash_forecasts, flash_lite_forecasts>>

rankVars == <<entry, top_stories, bottom_stories>>

stageVars == <<stage, metadata, tasks, responses, files, late, task_pc, semaphore,
               gate, completed, gathered, main_pc, written, writes, example_log>>

\* The variables analyze_predictions has no access to.
otherVars == <<call, rankVars, stageVars>>

analysisVars == <<pc, story_pos, question_idx,
                  all_scores, story_scores, story_titles, story_tags,
                  story_avg_scores, model_avg_scores, tag_scores, tag_sources,
                  tag_avg_scores, float64>>

-----------------------------------------------------------------------------
(* Bounds of the model.                                                    *)

\* The largest number of questions of a story.
MaxQuestions == 2

-----------------------------------------------------------------------------
(* Numbers.                                                                *)

\* The literal 1 of `1 - prediction`, in thousandths.
One == 1000

\* The clip 0.01 of max(prediction, 0.01), in thousandths.
ClipMin == 10

\* What np.mean gives for an empty list: nan, which is no number.  It is
\* kept apart from every score: a score is at most 0.
NaN == 999999999

\* The probabilities handed to calculate_log_score, in thousandths: closed
\* under p -> 1 - p, with points below, at and above the clip on both sides.
Probs == {0, 5, 10, 200, 300, 400, 600, 700, 800, 990, 995, 1000}

\* round(math.log(q / 1000) * 10^6) for the positive probabilities.
LnMicro ==
    [q \in Probs \ {0} |->
        CASE q = 5    -> -5298317
          [] q = 10   -> -4605170
          [] q = 200  -> -1609438
          [] q = 300  -> -1203973
          [] q = 400  -> -916291
          [] q = 600  -> -510826
          [] q = 700  -> -356675
          [] q = 800  -> -223144
          [] q = 990  -> -10050
          [] q = 995  -> -5013
          [] q = 1000 -> 0]

\* The items of a list, as a set.
SeqRange(seq) == {seq[i] : i \in 1..Len(seq)}

\* Python's max of two numbers.
Max(a, b) == IF a >= b THEN a ELSE b

\* math.log: a ValueError (raised) for an argument that is not positive.
log(x) ==
    IF x <= 0 THEN [raised |-> TRUE, value |-> NaN]
    ELSE [raised |-> FALSE, value |-> LnMicro[x]]

-----------------------------------------------------------------------------
(* calculate_log_score, src/analysis.py:10-21.                             *)

\* Mutant: the "no" branch without its clip.
calculate_log_score_unclipped_no(prediction, actual) ==
    IF actual = "yes"
    THEN log(Max(prediction, ClipMin))
    ELSE log(One - prediction)

\* Mutant: the two branches exchanged.
calculate_log_score_swapped(prediction, actual) ==
    IF actual = "yes"
    THEN log(Max(One - prediction, ClipMin))
    ELSE log(Max(prediction, ClipMin))

calculate_log_score(prediction, actual) ==
    IF actual = "yes"
    THEN log(Max(prediction, ClipMin))
    ELSE log(Max(One - prediction, ClipMin))

\* The sum np.mean takes over the items of a list.  The scores are kept in
\* millionths; a float sum of a few scores differs from the exact sum by
\* less than 10^-8 millionths, which is no difference at this resolution
\* (float64_sum below is the float sum itself).
RECURSIVE SumSeq(_)
SumSeq(s) == IF s = <<>> THEN 0 ELSE Head(s) + SumSeq(Tail(s))

\* np.mean of a list of floats: nan for the empty list (numpy warns, and
\* raises nothing).
np_mean(scores) ==
    IF scores = <<>> THEN NaN ELSE SumSeq(scores) \div Len(scores)

-----------------------------------------------------------------------------
(* The doubles of the averages, bit for bit.  A log score is never         *)
(* positive: the double x is kept as <<a, b, c>> with                      *)
(*     x = -(a * 2^48 + b * 2^24 + c) * 2^-64,   0 <= b, c < 2^24.         *)
(* Every score of the model and every sum and mean of up to seven of them  *)
(* is such a number, and has its 53 significant bits above 2^-64.          *)

Limb == 2^24

\* 0.0
Float64Zero == <<0, 0, 0>>

\* nan, which is no number
Float64NaN == <<-1, -1, -1>>

\* math.log(max(prediction, 0.01)) and math.log(max(1 - prediction, 0.01))
\* as CPython 3.11 computes them for the prediction json.load reads from
\* the decimal of so many thousandths.  1 - prediction is a float
\* subtraction: 1 - 0.8 is 0.19999999999999996 and its logarithm is not
\* that of 0.2, so that the table is over the prediction and the answer.
calculate_log_score_float64(prediction, actual) ==
    IF actual = "yes"
    THEN CASE prediction = 0    -> <<301804, 7269717, 4538368>>  \* -4.605170185988091
           [] prediction = 5    -> <<301804, 7269717, 4538368>>  \* -4.605170185988091
           [] prediction = 10   -> <<301804, 7269717, 4538368>>  \* -4.605170185988091
           [] prediction = 200  -> <<105476, 2064088, 13840384>> \* -1.6094379124341003
           [] prediction = 300  -> <<78903, 9423834, 7475200>>   \* -1.2039728043259361
           [] prediction = 400  -> <<60050, 493319, 243712>>     \* -0.916290731874155
           [] prediction = 600  -> <<33477, 7853064, 10653696>>  \* -0.5108256237659907
           [] prediction = 700  -> <<23375, 824196, 16596992>>   \* -0.35667494393873245
           [] prediction = 800  -> <<14623, 15699765, 3424256>>  \* -0.2231435513142097
           [] prediction = 990  -> <<658, 11053005, 16422784>>   \* -0.01005033585350145
           [] prediction = 995  -> <<328, 8421171, 11751728>>    \* -0.005012541823544286
           [] prediction = 1000 -> <<0, 0, 0>>                   \* 0.0
    ELSE CASE prediction = 0    -> <<0, 0, 0>>                   \* 0.0
           [] prediction = 5    -> <<328, 8421171, 11751728>>    \* -0.005012541823544286
           [] prediction = 10   -> <<658, 11053005, 16422784>>   \* -0.01005033585350145
           [] prediction = 200  -> <<14623, 15699765, 3424256>>  \* -0.2231435513142097
           [] prediction = 300  -> <<23375, 824196, 16596992>>   \* -0.35667494393873245
           [] prediction = 400  -> <<33477, 7853064, 10653696>>  \* -0.5108256237659907
           [] prediction = 600  -> <<60050, 493319, 243712>>     \* -0.916290731874155
           [] prediction = 700  -> <<78903, 9423834, 7471104>>   \* -1.203972804325936
           [] prediction = 800  -> <<105476, 2064088, 13844480>> \* -1.6094379124341005
           [] prediction = 990  -> <<301804, 7269717, 4538368>>  \* -4.605170185988091
           [] prediction = 995  -> <<301804, 7269717, 4538368>>  \* -4.605170185988091
           [] prediction = 1000 -> <<301804, 7269717, 4538368>>  \* -4.605170185988091

\* The number of bits of a natural number.
RECURSIVE BitLength(_)
BitLength(n) == IF n = 0 THEN 0 ELSE 1 + BitLength(n \div 2)

\* The number of bits of a * 2^48 + b * 2^24 + c.
Bits(x) ==
    IF x[1] > 0 THEN 48 + BitLength(x[1])
    ELSE IF x[2] > 0 THEN 24 + BitLength(x[2])
    ELSE BitLength(x[3])

\* <<a, b, c>> with b and c brought below 2^24.
Carried(x) ==
    LET low == x[2] + (x[3] \div Limb)
    IN  <<x[1] + (low \div Limb), low % Limb, x[3] % Limb>>

\* The double nearest to x + f, ties to the even one (IEEE 754 round to
\* nearest even), where 0 <= f < 1 in units of 2^-64 is given by below:
\* 0 when f = 0, 1 when f < 1/2, 2 when f = 1/2, 3 when f > 1/2.  A double
\* has 53 significant bits: the bits of x below them are rounded away.
RoundToFloat64(x, below) ==
    LET shift == Bits(x) - 53
        unit == 2^shift
        low == x[3] % unit
        odd == (x[3] \div unit) % 2 = 1
        up == IF shift = 0
              THEN below = 3 \/ (below = 2 /\ odd)
              ELSE \/ 2 * low > unit
                   \/ 2 * low = unit /\ (below > 0 \/ odd)
    IN  IF shift < 0 THEN x
        ELSE Carried(<<x[1], x[2], x[3] - low + (IF up THEN unit ELSE 0)>>)

\* x + y of two doubles: the exact sum, rounded.
float64_add(x, y) ==
    RoundToFloat64(Carried(<<x[1] + y[1], x[2] + y[2], x[3] + y[3]>>), 0)

\* x / n of a double and a count: the exact quotient, rounded.
float64_div(x, n) ==
    LET mid == (x[1] % n) * Limb + x[2]
        last == (mid % n) * Limb + x[3]
        rest == last % n
    IN  RoundToFloat64(<<x[1] \div n, mid \div n, last \div n>>,
                       IF rest = 0 THEN 0
                       ELSE IF 2 * rest < n THEN 1
                       ELSE IF 2 * rest = n THEN 2 ELSE 3)

\* The sum np.mean takes over the items of a list of doubles: numpy adds
\* the items of a list of fewer than eight one after the other, from the
\* first on, to 0.0.
RECURSIVE float64_sum(_, _)
float64_sum(sum, scores) ==
    IF scores = <<>> THEN sum
    ELSE float64_sum(float64_add(sum, Head(scores)), Tail(scores))

\* np.mean of a list of doubles: the float sum divided by the count, nan
\* for the empty list.
np_mean_float64(scores) ==
    IF scores = <<>> THEN Float64NaN
    ELSE float64_div(float64_sum(Float64Zero, scores), Len(scores))

-----------------------------------------------------------------------------
(* Dictionaries.                                                           *)

EmptyDict == [k \in {} |-> 0]

\* d.get(k, default)
Get(d, k, default) == IF k \in DOMAIN d THEN d[k] ELSE default

\* d[k] = v
Put(d, k, v) == [x \in DOMAIN d \cup {k} |-> IF x = k THEN v ELSE d[x]]

\* d[k].append(v) on a defaultdict(list)
AppendTo(d, k, v) == Put(d, k, Append(Get(d, k, <<>>), v))

\* str(question_idx) for the indices of the model.
IdxStr == <<"0", "1", "2", "3">>
str(i) == IdxStr[i + 1]

-----------------------------------------------------------------------------
(* The inputs of the model.                                                *)

Models == <<"flash", "flash_lite">>

\* The stories of results.  "s1" is drawn from every record and forecast
\* shape of the model, "s2" from a few that share tags with "s1".
StoryIds == {"s1", "s2"}

Answers == {"yes", "no"}

\* The lists of at most n resolved questions ({"question": .., "answer": ..},
\* of which the analysis reads "answer" only).
QuestionLists(n) ==
    UNION {[1..k -> {[answer |-> a] : a \in Answers}] : k \in 0..n}

\* The shapes of a story record of results.json: every key is optional,
\* and tags is the list tagging.py has written, which may hold a tag twice
\* (tagging.py:45-49 keeps every <tag> match that names a known tag).
StoryRecords(qs) ==
    {[Title |-> "A", tags |-> <<"mystery">>, questions |-> q] : q \in qs}
    \cup {[Title |-> "E", tags |-> <<"mystery", "mystery">>, questions |-> q] :
              q \in qs}
    \cup {[Title |-> "B", tags |-> <<"mystery", "scifi">>, questions |-> q,
           error |-> FALSE] : q \in qs}
    \cup {[questions |-> q] : q \in qs}
    \cup {[Title |-> "C", tags |-> <<"scifi">>, questions |-> q,
           error |-> TRUE] : q \in qs}
    \cup {[Title |-> "D", tags |-> <<"scifi">>]}

\* The probability each model gives for each question, in thousandths: whole
\* percents from 0% to 99%, which is what predict_questions.py writes (the
\* first story's are those of the two-model scenario of the specification).
ForecastProb ==
    [flash |->
        [s1 |-> ("0" :> 800) @@ ("1" :> 300) @@ ("2" :> 0) @@ ("3" :> 990),
         s2 |-> ("0" :> 990) @@ ("1" :> 0) @@ ("2" :> 600) @@ ("3" :> 10)],
     flash_lite |->
        [s1 |-> ("0" :> 600) @@ ("1" :> 400) @@ ("2" :> 990) @@ ("3" :> 0),
         s2 |-> ("0" :> 0) @@ ("1" :> 990) @@ ("2" :> 200) @@ ("3" :> 700)]]

\* The question index strings a forecast file may hold.
IdxKeys == {str(i) : i \in 0..(MaxQuestions - 1)}

\* What one model's forecast file holds for story s: nothing, or the
\* forecasts of the questions of one of keysets.
StoryForecasts(model, s, keysets) ==
    {EmptyDict}
    \cup {(s :> [k \in K |-> ForecastProb[model][s][k]]) : K \in keysets}

ForecastDicts(model) ==
    {a @@ b : a \in StoryForecasts(model, "s1", SUBSET IdxKeys),
              b \in StoryForecasts(model, "s2", {{"0"}, IdxKeys})}

ResultsDicts ==
    {("s1" :> r1) @@ ("s2" :> r2) :
        r1 \in StoryRecords(QuestionLists(MaxQuestions)),
        r2 \in StoryRecords({<<[answer |-> "no"]>>,
                             <<[answer |-> "yes"], [answer |-> "yes"]>>})}

-----------------------------------------------------------------------------
(* analyze_predictions, src/analysis.py:38-115.                            *)

story_id == results_order[story_pos]
story_data == results[story_id]
questions == Get(story_data, "questions", <<>>)

\* Mutant: the error flag read the wrong way round.
HasError_inverted(data) == "error" \in DOMAIN data /\ ~data["error"]

\* line 52
HasError(data) == "error" \in DOMAIN data /\ data["error"]

\* Mutant: the join looks at the first model only.
InBothForecasts_flash_only(s) == s \in DOMAIN flash_forecasts

\* line 63, negated
InBothForecasts(s) ==
    s \in DOMAIN flash_forecasts /\ s \in DOMAIN flash_lite_forecasts

\* No score and no average yet.
NoFloat64 ==
    [all_scores |-> [flash |-> EmptyDict, flash_lite |-> EmptyDict],
     story_scores |-> EmptyDict,
     story_avg_scores |-> EmptyDict,
     model_avg_scores |-> EmptyDict,
     tag_scores |-> EmptyDict,
     tag_avg_scores |-> EmptyDict]

InitAnalysis ==
    /\ pc = "story"
    /\ story_pos = 1
    /\ question_idx = 0
    /\ all_scores = [flash |-> EmptyDict, flash_lite |-> EmptyDict]
    /\ story_scores = EmptyDict
    /\ story_titles = EmptyDict
    /\ story_tags = EmptyDict
    /\ story_avg_scores = EmptyDict
    /\ model_avg_scores = EmptyDict
    /\ tag_scores = EmptyDict
    /\ tag_sources = EmptyDict
    /\ tag_avg_scores = EmptyDict
    /\ float64 = NoFloat64

IdleCall == [p1 |-> 0, p2 |-> 0, actual |-> "yes", ret |-> <<>>]

\* No ranking has been printed.
IdleRank ==
    /\ entry = "none"
    /\ top_stories = <<>>
    /\ bottom_stories = <<>>

\* No large run.
NoGate == [created |-> 0, waiting |-> 0, woken |-> 0, inside |-> 0, late |-> 0,
           done |-> 0, raised |-> 0, cancelled |-> 0]

\* No upstream stage runs.
IdleStage ==
    /\ stage = "none"
    /\ metadata = <<>>
    /\ tasks = <<>>
    /\ responses = <<>>
    /\ files = {}
    /\ late = {}
    /\ task_pc = <<>>
    /\ semaphore = 0
    /\ gate = NoGate
    /\ completed = <<>>
    /\ gathered = <<>>
    /\ main_pc = "loop"
    /\ written = <<>>
    /\ writes = 0
    /\ example_log = <<>>

\* Nothing but analyze_predictions runs.
IdleOther ==
    /\ call = IdleCall
    /\ IdleRank
    /\ IdleStage

Init ==
    /\ results \in ResultsDicts
    /\ results_order = <<"s1", "s2">>
    /\ flash_forecasts \in ForecastDicts("flash")
    /\ flash_lite_forecasts \in ForecastDicts("flash_lite")
    /\ InitAnalysis
    /\ IdleOther

\* lines 51-53: a record with a truthy error flag is skipped.
SkipErrorStory ==
    /\ pc = "story"
    /\ story_pos <= Len(results_order)
    /\ HasError(story_data)
    /\ story_pos' = story_pos + 1
    /\ UNCHANGED <<pc, question_idx, all_scores, story_scores, story_titles,
                   story_tags, story_avg_scores, model_avg_scores, tag_scores,
                   tag_sources, tag_avg_scores, float64>>
    /\ UNCHANGED <<inputVars, otherVars>>

\* lines 56-57
StoreMetadata ==
    /\ story_titles' = Put(story_titles, story_id,
                           Get(story_data, "Title", "Story " \o story_id))
    /\ story_tags' = Put(story_tags, story_id, Get(story_data, "tags", <<>>))

\* lines 51-64: the metadata is stored, and the story is left when one of
\* the two models has no forecasts for it.
SkipUnjoinedStory ==
    /\ pc = "story"
    /\ story_pos <= Len(results_order)
    /\ ~HasError(story_data)
    /\ StoreMetadata
    /\ ~InBothForecasts(story_id)
    /\ story_pos' = story_pos + 1
    /\ UNCHANGED <<pc, question_idx, all_scores, story_scores,
                   story_avg_scores, model_avg_scores, tag_scores,
                   tag_sources, tag_avg_scores, float64>>
    /\ UNCHANGED <<inputVars, otherVars>>

\* lines 51-67: the metadata is stored and the loop over the questions starts.
BeginQuestions ==
    /\ pc = "story"
    /\ story_pos <= Len(results_order)
    /\ ~HasError(story_data)
    /\ StoreMetadata
    /\ InBothForecasts(story_id)
    /\ pc' = "question"
    /\ question_idx' = 0
    /\ UNCHANGED <<story_pos, all_scores, story_scores,
                   story_avg_scores, model_avg_scores, tag_scores,
                   tag_sources, tag_avg_scores, float64>>
    /\ UNCHANGED <<inputVars, otherVars>>

\* lines 77-79 and 90-92: all_scores[model][story][idx] = log_score
StoreScore(scores, model, s, idx, log_score) ==
    [scores EXCEPT ![model] = Put(@, s, Put(Get(@, s, EmptyDict), idx, log_score))]

\* Mutant: the story-level list is assigned, not appended to.
StoryLevelAppend_overwrite(lists, s, log_score) == Put(lists, s, <<log_score>>)

\* line 82: story_scores[story_id].append(log_score)
StoryLevelAppend(lists, s, log_score) == AppendTo(lists, s, log_score)

\* lines 71-82, the flash half of one iteration, on the locals
\* st = [all_scores, story_scores, raised].  An exception (the KeyError of
\* flash_forecasts[story_id], the ValueError of math.log) leaves the locals
\* as they are and ends the call.
FlashStep(st, s, idx_str, actual_answer) ==
    IF s \notin DOMAIN flash_forecasts
    THEN [st EXCEPT !.raised = TRUE]
    ELSE IF idx_str \notin DOMAIN flash_forecasts[s]
    THEN st
    ELSE LET prediction == flash_forecasts[s][idx_str]
             log_score == calculate_log_score(prediction, actual_answer)
         IN  IF log_score.raised
             THEN [st EXCEPT !.raised = TRUE]
             ELSE [all_scores |-> StoreScore(st.all_scores, "flash", s, idx_str,
                                             log_score.value),
                   story_scores |-> StoryLevelAppend(st.story_scores, s,
                                                     log_score.value),
                   raised |-> FALSE]

\* Mutant: the flash_lite score is appended to the story-level list too.
LiteStep_pooled(st, s, idx_str, actual_answer) ==
    IF st.raised
    THEN st
    ELSE IF s \notin DOMAIN flash_lite_forecasts
    THEN [st EXCEPT !.raised = TRUE]
    ELSE IF idx_str \notin DOMAIN flash_lite_forecasts[s]
    THEN st
    ELSE LET prediction == flash_lite_forecasts[s][idx_str]
             log_score == calculate_log_score(prediction, actual_answer)
         IN  IF log_score.raised
             THEN [st EXCEPT !.raised = TRUE]
             ELSE [all_scores |-> StoreScore(st.all_scores, "flash_lite", s,
                                             idx_str, log_score.value),
                   story_scores |-> AppendTo(st.story_scores, s, log_score.value),
                   raised |-> FALSE]

\* Mutant: the flash_lite half nested under the flash test, so that a
\* question flash did not forecast is not scored for flash_lite either.
LiteStep_needs_flash(st, s, idx_str, actual_answer) ==
    IF st.raised
    THEN st
    ELSE IF s \notin DOMAIN flash_lite_forecasts
    THEN [st EXCEPT !.raised = TRUE]
    ELSE IF idx_str \notin DOMAIN flash_lite_forecasts[s]
            \/ idx_str \notin DOMAIN flash_forecasts[s]
    THEN st
    ELSE LET prediction == flash_lite_forecasts[s][idx_str]
             log_score == calculate_log_score(prediction, actual_answer)
         IN  IF log_score.raised
             THEN [st EXCEPT !.raised = TRUE]
             ELSE [st EXCEPT !.all_scores =
                       StoreScore(st.all_scores, "flash_lite", s, idx_str,
                                  log_score.value)]

\* lines 84-92, the flash_lite half: the score goes to all_scores only.
LiteStep(st, s, idx_str, actual_answer) ==
    IF st.raised
    THEN st
    ELSE IF s \notin DOMAIN flash_lite_forecasts
    THEN [st EXCEPT !.raised = TRUE]
    ELSE IF idx_str \notin DOMAIN flash_lite_forecasts[s]
    THEN st
    ELSE LET prediction == flash_lite_forecasts[s][idx_str]
             log_score == calculate_log_score(prediction, actual_answer)
         IN  IF log_score.raised
             THEN [st EXCEPT !.raised = TRUE]
             ELSE [st EXCEPT !.all_scores =
                       StoreScore(st.all_scores, "flash_lite", s, idx_str,
                                  log_score.value)]

\* lines 71-92 on the doubles: the scores one iteration that raises nothing
\* stores, f = [all_scores, story_scores, ..] being the doubles so far.
StepFloat64(f, s, idx_str, actual_answer) ==
    LET flash ==
            IF idx_str \in DOMAIN flash_forecasts[s]
            THEN LET log_score == calculate_log_score_float64(
                                      flash_forecasts[s][idx_str], actual_answer)
                 IN  [f EXCEPT !.all_scores = StoreScore(@, "flash", s, idx_str,
                                                         log_score),
                               !.story_scores = StoryLevelAppend(@, s, log_score)]
            ELSE f
    IN  IF idx_str \in DOMAIN flash_lite_forecasts[s]
        THEN [flash EXCEPT !.all_scores =
                  StoreScore(@, "flash_lite", s, idx_str,
                             calculate_log_score_float64(
                                 flash_lite_forecasts[s][idx_str], actual_answer))]
        ELSE flash

\* lines 67-92: one question, scored for flash and then for flash_lite.
ProcessQuestion ==
    /\ pc = "question"
    /\ question_idx < Len(questions)
    /\ LET question_idx_str == str(question_idx)
           actual_answer == questions[question_idx + 1]["answer"]
           st0 == [all_scores |-> all_scores, story_scores |-> story_scores,
                   raised |-> FALSE]
           st == LiteStep(FlashStep(st0, story_id, question_idx_str, actual_answer),
                          story_id, question_idx_str, actual_answer)
       IN  /\ all_scores' = st.all_scores
           /\ story_scores' = st.story_scores
           /\ float64' = IF st.raised THEN float64
                         ELSE StepFloat64(float64, story_id, question_idx_str,
                                          actual_answer)
           /\ pc' = IF st.raised THEN "raised" ELSE pc
           /\ question_idx' = IF st.raised THEN question_idx ELSE question_idx + 1
    /\ UNCHANGED <<story_pos, story_titles, story_tags, story_avg_scores,
                   model_avg_scores, tag_scores, tag_sources, tag_avg_scores>>
    /\ UNCHANGED <<inputVars, otherVars>>

\* line 67: the questions are exhausted; line 51: the next story.
EndQuestions ==
    /\ pc = "question"
    /\ question_idx >= Len(questions)
    /\ pc' = "story"
    /\ story_pos' = story_pos + 1
    /\ UNCHANGED <<question_idx, all_scores, story_scores, story_titles,
                   story_tags, story_avg_scores, model_avg_scores, tag_scores,
                   tag_sources, tag_avg_scores, float64>>
    /\ UNCHANGED <<inputVars, otherVars>>

\* The keys of a dict filled while results was iterated, in that order.
RECURSIVE KeysInOrder(_, _)
KeysInOrder(order, d) ==
    IF order = <<>> THEN <<>>
    ELSE IF Head(order) \in DOMAIN d
         THEN <<Head(order)>> \o KeysInOrder(Tail(order), d)
         ELSE KeysInOrder(Tail(order), d)

\* line 95
CalcStoryAvg ==
    /\ pc = "story"
    /\ story_pos > Len(results_order)
    /\ story_avg_scores' = [s \in DOMAIN story_scores |-> np_mean(story_scores[s])]
    /\ float64' = [float64 EXCEPT !.story_avg_scores =
                       [s \in DOMAIN float64.story_scores |->
                           np_mean_float64(float64.story_scores[s])]]
    /\ pc' = "model_avg"
    /\ UNCHANGED <<story_pos, question_idx, all_scores, story_scores,
                   story_titles, story_tags, model_avg_scores, tag_scores,
                   tag_sources, tag_avg_scores>>
    /\ UNCHANGED <<inputVars, otherVars>>

\* The values of a dict keyed by question index strings, in index order.
RECURSIVE IdxValues(_, _)
IdxValues(d, i) ==
    IF i > Len(IdxStr) THEN <<>>
    ELSE IF IdxStr[i] \in DOMAIN d
         THEN <<d[IdxStr[i]]>> \o IdxValues(d, i + 1)
         ELSE IdxValues(d, i + 1)

\* lines 98-99: every score of one model, as one flat list.
RECURSIVE FlattenScores(_, _)
FlattenScores(by_story, keys) ==
    IF keys = <<>> THEN <<>>
    ELSE IdxValues(by_story[Head(keys)], 1) \o FlattenScores(by_story, Tail(keys))

\* Mutant: the scores of the first story only.
model_all_scores_first_story(model) ==
    LET keys == KeysInOrder(results_order, all_scores[model])
    IN  IF keys = <<>> THEN <<>> ELSE IdxValues(all_scores[model][Head(keys)], 1)

\* Mutant: one item per story, the mean of the story's scores.
RECURSIVE StoryMeans(_, _)
StoryMeans(by_story, keys) ==
    IF keys = <<>> THEN <<>>
    ELSE <<np_mean(IdxValues(by_story[Head(keys)], 1))>>
         \o StoryMeans(by_story, Tail(keys))

model_all_scores_story_means(model) ==
    StoryMeans(all_scores[model], KeysInOrder(results_order, all_scores[model]))

model_all_scores(model) ==
    FlattenScores(all_scores[model], KeysInOrder(results_order, all_scores[model]))

\* lines 98-99 on the doubles.
model_all_scores_float64(model) ==
    FlattenScores(float64.all_scores[model],
                  KeysInOrder(results_order, float64.all_scores[model]))

\* lines 98-104
CalcModelAvg ==
    /\ pc = "model_avg"
    /\ model_avg_scores' = [flash |-> np_mean(model_all_scores("flash")),
                            flash_lite |-> np_mean(model_all_scores("flash_lite"))]
    /\ float64' = [float64 EXCEPT !.model_avg_scores =
                       [flash |-> np_mean_float64(model_all_scores_float64("flash")),
                        flash_lite |->
                            np_mean_float64(model_all_scores_float64("flash_lite"))]]
    /\ pc' = "tag_avg"
    /\ UNCHANGED <<story_pos, question_idx, all_scores, story_scores,
                   story_titles, story_tags, story_avg_scores, tag_scores,
                   tag_sources, tag_avg_scores>>
    /\ UNCHANGED <<inputVars, otherVars>>

\* lines 110-111 for the tags of one story, from position i on.
RECURSIVE AppendTags(_, _, _, _)
AppendTags(lists, tags, i, item) ==
    IF i > Len(tags) THEN lists
    ELSE AppendTags(AppendTo(lists, tags[i], item), tags, i + 1, item)

\* lines 108-111 for the stories of keys: item[s] is what story s appends.
RECURSIVE CollectTags(_, _, _)
CollectTags(lists, keys, item) ==
    IF keys = <<>> THEN lists
    ELSE CollectTags(
             AppendTags(lists, Get(story_tags, Head(keys), <<>>), 1, item[Head(keys)]),
             Tail(keys), item)

\* The story ids in place of their averages, for tag_sources.
StoryIdOf == [s \in DOMAIN story_avg_scores |-> s]

\* lines 107-113
CalcTagAvg ==
    /\ pc = "tag_avg"
    /\ LET keys == KeysInOrder(results_order, story_avg_scores)
           lists == CollectTags(EmptyDict, keys, story_avg_scores)
       IN  /\ tag_scores' = lists
           /\ tag_sources' = CollectTags(EmptyDict, keys, StoryIdOf)
           /\ tag_avg_scores' = [tag \in DOMAIN lists |-> np_mean(lists[tag])]
           /\ float64' =
                  LET pools == CollectTags(EmptyDict, keys, float64.story_avg_scores)
                  IN  [float64 EXCEPT
                           !.tag_scores = pools,
                           !.tag_avg_scores =
                               [tag \in DOMAIN pools |-> np_mean_float64(pools[tag])]]
    /\ pc' = "done"
    /\ UNCHANGED <<story_pos, question_idx, all_scores, story_scores,
                   story_titles, story_tags, story_avg_scores, model_avg_scores>>
    /\ UNCHANGED <<inputVars, otherVars>>

-----------------------------------------------------------------------------
(* calculate_log_score on its own: one pair of calls with the same answer. *)

\* The ground-truth answers handed to calculate_log_score: the two literals
\* and three malformed ones.
Actuals == {"yes", "no", "ambiguous", "Yes", ""}

InitScore ==
    /\ results = EmptyDict
    /\ results_order = <<>>
    /\ flash_forecasts = EmptyDict
    /\ flash_lite_forecasts = EmptyDict
    /\ InitAnalysis
    /\ call \in [p1 : Probs, p2 : Probs, actual : Actuals, ret : {<<>>}]
    /\ IdleRank
    /\ IdleStage

\* calculate_log_score(p1, actual) and calculate_log_score(p2, actual)
CallScore ==
    /\ call.ret = <<>>
    /\ call' = [call EXCEPT !.ret = <<calculate_log_score(call.p1, call.actual),
                                       calculate_log_score(call.p2, call.actual)>>]
    /\ UNCHANGED <<inputVars, analysisVars, rankVars, stageVars>>

NextScore == CallScore

SpecScore == InitScore /\ [][NextScore]_vars

-----------------------------------------------------------------------------
(* analyze_predictions with results in either iteration order.  The        *)
(* forecast mappings are never iterated, only looked up, so that their     *)
(* order is no part of the state.                                          *)

\* Both stories from every record shape; a model has all the forecasts of
\* a story or none.
ForecastDictsFull(model) ==
    {a @@ b : a \in StoryForecasts(model, "s1", {IdxKeys}),
              b \in StoryForecasts(model, "s2", {IdxKeys})}

InitOrder ==
    /\ results \in {("s1" :> r1) @@ ("s2" :> r2) :
                       r1 \in StoryRecords(QuestionLists(MaxQuestions)),
                       r2 \in StoryRecords(QuestionLists(MaxQuestions))}
    /\ results_order \in {<<"s1", "s2">>, <<"s2", "s1">>}
    /\ flash_forecasts \in ForecastDictsFull("flash")
    /\ flash_lite_forecasts \in ForecastDictsFull("flash_lite")
    /\ InitAnalysis
    /\ IdleOther

-----------------------------------------------------------------------------
(* The story ranking of main (lines 222-231) and of main_2 (lines          *)
(* 251-266), on the story_avg_scores and story_titles analyze_predictions  *)
(* returns for results of up to MaxStories scored stories.                 *)

\* The number of stories of a printed list.
TopK == 5

\* The largest number of ranked stories.
MaxStories == 6

\* The story ids of the ranking, in the iteration order of story_avg_scores.
RankIds == <<"a", "b", "c", "d", "e", "f", "g", "h">>

\* The id of one more story of results, which gets no average.
RankExtraId == "z"

\* The probabilities flash gives for the one question of a ranked story, in
\* thousandths; the answer is "yes", so that the story averages are
\* ln 0.6, ln 0.8 and ln 0.99, and stories tie.
RankProbs == {600, 800, 990}

\* What results holds beside the ranked stories: nothing, a story that is
\* flagged with an error, or a story flash_lite has no forecasts for.
RankExtras == {"none", "error", "unjoined"}

Min(a, b) == IF a <= b THEN a ELSE b

\* story_avg_scores.items(): the (story id, score) pairs in iteration order.
items(d, order) ==
    LET keys == KeysInOrder(order, d)
    IN  [i \in 1..Len(keys) |-> <<keys[i], d[keys[i]]>>]

\* x goes before y in a sort by score: the scores are compared as floats.
Before(x, y, reverse) == IF reverse THEN x[2] > y[2] ELSE x[2] < y[2]

\* s with x put in: behind the items that go before it and behind the
\* items of equal score (the sort is stable, with reverse=True too).
RECURSIVE InsertSorted(_, _, _)
InsertSorted(x, s, reverse) ==
    IF s = <<>> THEN <<x>>
    ELSE IF Before(x, Head(s), reverse) THEN <<x>> \o s
         ELSE <<Head(s)>> \o InsertSorted(x, Tail(s), reverse)

\* sorted(s, key=lambda x: x[1], reverse=reverse)
RECURSIVE SortedFrom(_, _, _)
SortedFrom(done, s, reverse) ==
    IF s = <<>> THEN done
    ELSE SortedFrom(InsertSorted(Head(s), done, reverse), Tail(s), reverse)

sorted(s, reverse) == SortedFrom(<<>>, s, reverse)

\* s[:n]
FirstN(s, n) == SubSeq(s, 1, Min(n, Len(s)))

\* s[-n::]
LastN(s, n) == SubSeq(s, Max(1, Len(s) - n + 1), Len(s))

\* s[::-1]
Reversed(s) == [i \in 1..Len(s) |-> s[Len(s) + 1 - i]]

\* main and main_2, lines 209-213, before analyze_predictions is called on
\* what load_data has read: up to MaxStories stories with one resolved
\* question each, forecast by both models, and at most one story more.
\* results_order is the iteration order of results, which is that of
\* story_avg_scores for the stories that get an average.
InitRank ==
    /\ \E n \in 0..MaxStories :
       \E prob \in [{RankIds[i] : i \in 1..n} -> RankProbs] :
       \E extra \in RankExtras :
           LET question == <<[answer |-> "yes"]>>
               ranked == [s \in DOMAIN prob |->
                             [Title |-> "A", tags |-> <<"mystery">>,
                              questions |-> question]]
               flash == [s \in DOMAIN prob |-> ("0" :> prob[s])]
               flash_lite == [s \in DOMAIN prob |-> ("0" :> 400)]
           IN  /\ results =
                      CASE extra = "none" -> ranked
                        [] extra = "error" ->
                               (RankExtraId :> [Title |-> "C", tags |-> <<"scifi">>,
                                                questions |-> question,
                                                error |-> TRUE]) @@ ranked
                        [] extra = "unjoined" ->
                               (RankExtraId :> [Title |-> "D", tags |-> <<"scifi">>,
                                                questions |-> question]) @@ ranked
               /\ results_order =
                      IF extra = "none" THEN SubSeq(RankIds, 1, n)
                      ELSE Append(SubSeq(RankIds, 1, n), RankExtraId)
               /\ flash_forecasts =
                      IF extra = "none" THEN flash
                      ELSE (RankExtraId :> ("0" :> 800)) @@ flash
               /\ flash_lite_forecasts =
                      IF extra = "error"
                      THEN (RankExtraId :> ("0" :> 400)) @@ flash_lite
                      ELSE flash_lite
    /\ InitAnalysis
    /\ IdleOther

\* story_titles[story_id] of the print loops (lines 225, 229, 259, 266)
\* raises no KeyError for the stories of list: line 56 gives a story its
\* title before line 82 gives it a score.
HasTitles(list) == \A i \in 1..Len(list) : list[i][1] \in DOMAIN story_titles

\* main, lines 222-231
RankMain ==
    /\ pc = "done"
    /\ entry = "none"
    /\ entry' = "main"
    /\ top_stories' =
           FirstN(sorted(items(story_avg_scores, results_order), TRUE), TopK)
    /\ bottom_stories' =
           IF HasTitles(top_stories')
           THEN FirstN(sorted(items(story_avg_scores, results_order), FALSE), TopK)
           ELSE bottom_stories
    /\ UNCHANGED <<inputVars, analysisVars, call, stageVars>>

\* main_2, lines 251-266
RankMain2 ==
    /\ pc = "done"
    /\ entry = "none"
    /\ entry' = "main_2"
    /\ LET sorted_stories ==
               sorted(items(story_avg_scores, results_order), FALSE)
       IN  /\ bottom_stories' = FirstN(sorted_stories, TopK)
           /\ top_stories' = IF HasTitles(bottom_stories')
                             THEN Reversed(LastN(sorted_stories, TopK))
                             ELSE top_stories
    /\ UNCHANGED <<inputVars, analysisVars, call, stageVars>>

\* analyze_predictions (lines 211-213), and then the ranking of main or
\* of main_2.
NextRank ==
    \/ SkipErrorStory
    \/ SkipUnjoinedStory
    \/ BeginQuestions
    \/ ProcessQuestion
    \/ EndQuestions
    \/ CalcStoryAvg
    \/ CalcModelAvg
    \/ CalcTagAvg
    \/ RankMain
    \/ RankMain2

SpecRank == InitRank /\ [][NextRank]_vars

-----------------------------------------------------------------------------
(* The upstream stages: main of create_questions.py, predict_questions.py, *)
(* resolve_questions.py and tagging.py.  Each makes one process_story task *)
(* per story or per question, runs the tasks under a semaphore, gathers    *)
(* the results as the tasks complete and dumps them at the end.  An        *)
(* exception that leaves a task, or main while it makes its tasks, ends    *)
(* main without the dump.                                                  *)
(*                                                                         *)
(* The text of a response is the list of its tagged segments, a            *)
(* [tag, body] each: re.findall with the pattern of a tag gives the bodies *)
(* of the segments of that tag, in order.  Strings are Python's: strip and *)
(* lower work character by character.                                      *)

\* The largest number of tasks of a run.
MaxTasks == 2

Stages == {"create_questions", "predict_questions", "resolve_questions", "tagging"}

\* max_concurrent_tasks
max_concurrent_tasks(st) == IF st = "predict_questions" THEN 50 ELSE 20

\* What forecast_question returns when it has no probability.
None == -1

Seg(tag, body) == [tag |-> tag, body |-> body]

\* A call of generate_content that raises, and one that returns text.
Raises == [raised |-> TRUE, text |-> <<>>]
Text(segments) == [raised |-> FALSE, text |-> segments]

\* The character of position i of a string, as a string of length one.
Char(s, i) == SubSeq(s, i, i)

UpperCase == "ABCDEFGHIJKLMNOPQRSTUVWXYZ"
LowerCase == "abcdefghijklmnopqrstuvwxyz"
Digits == "0123456789"

\* The characters str.strip() removes, among those of the responses.
Whitespace == {" ", "\t", "\n", "\r"}

\* The position of character c in the string chars, 0 when it has none.
IndexIn(chars, c) ==
    IF \E i \in 1..Len(chars) : Char(chars, i) = c
    THEN CHOOSE i \in 1..Len(chars) : Char(chars, i) = c
    ELSE 0

\* str.lower(), character by character.
RECURSIVE lower(_)
lower(s) ==
    IF s = "" THEN ""
    ELSE LET c == Char(s, 1)
             i == IndexIn(UpperCase, c)
         IN  (IF i = 0 THEN c ELSE Char(LowerCase, i)) \o lower(SubSeq(s, 2, Len(s)))

RECURSIVE lstrip(_)
lstrip(s) ==
    IF s # "" /\ Char(s, 1) \in Whitespace THEN lstrip(SubSeq(s, 2, Len(s))) ELSE s

RECURSIVE rstrip(_)
rstrip(s) ==
    IF s # "" /\ Char(s, Len(s)) \in Whitespace
    THEN rstrip(SubSeq(s, 1, Len(s) - 1)) ELSE s

\* str.strip()
strip(s) == rstrip(lstrip(s))

\* The pattern . of a regular expression without re.DOTALL matches every
\* character but the newline.
HasNewline(s) == \E i \in 1..Len(s) : Char(s, i) = "\n"

\* re.findall(r'<tag>(.*?)</tag>', text, flags): the bodies of the segments
\* whose tag the pattern names (in any case with re.IGNORECASE) and whose
\* body the group (.*?) matches (any body with re.DOTALL, a body of one
\* line without).
RECURSIVE findall(_, _, _, _)
findall(tag, text, ignorecase, dotall) ==
    IF text = <<>> THEN <<>>
    ELSE LET seg == Head(text)
             named == IF ignorecase THEN lower(seg.tag) = tag ELSE seg.tag = tag
             rest == findall(tag, Tail(text), ignorecase, dotall)
         IN  IF named /\ (dotall \/ ~HasNewline(seg.body))
             THEN <<seg.body>> \o rest
             ELSE rest

\* tagging.py, lines 15-31
TAGS == <<"mystery", "romance", "historical", "horror", "fantasy",
          "science fiction", "literary", "adventure", "humor", "allegorical",
          "satire", "tragedy", "comedy", "drama", "not a short story">>

\* The body of an answer segment the pattern (\d\d?)\% matches: one or two
\* digits and a percent sign.
IsPercent(b) ==
    /\ Len(b) \in {2, 3}
    /\ Char(b, Len(b)) = "%"
    /\ \A i \in 1..(Len(b) - 1) : IndexIn(Digits, Char(b, i)) # 0

\* float(match) / 100.0 of the digits of such a body, in thousandths.
RECURSIVE DigitsValue(_)
DigitsValue(d) ==
    IF d = "" THEN 0
    ELSE 10 * DigitsValue(SubSeq(d, 1, Len(d) - 1))
         + (IndexIn(Digits, Char(d, Len(d))) - 1)

Percent(b) == 10 * DigitsValue(SubSeq(b, 1, Len(b) - 1))

\* create_questions.py, lines 52-67
extract_questions_from_response(text) ==
    LET matches == findall("question", text, FALSE, TRUE)
    IN  [i \in 1..Len(matches) |-> strip(matches[i])]

\* predict_questions.py, lines 37-54: the pattern matches an answer segment
\* whose body is one or two digits and a percent sign.
extract_probability_from_response(text) ==
    LET matches == SelectSeq(findall("answer", text, FALSE, TRUE), IsPercent)
    IN  IF Len(matches) # 1
        THEN [raised |-> TRUE, value |-> None]
        ELSE [raised |-> FALSE, value |-> Percent(matches[1])]

\* resolve_questions.py, lines 31-48
extract_answer_from_response(text) ==
    LET matches == findall("answer", text, FALSE, TRUE)
    IN  IF Len(matches) # 1
        THEN [raised |-> TRUE, value |-> ""]
        ELSE [raised |-> FALSE, value |-> strip(matches[1])]

\* tagging.py, lines 33-51
extract_tags_from_response(text) ==
    LET matches == findall("tag", text, TRUE, FALSE)
        tags == [i \in 1..Len(matches) |-> lower(strip(matches[i]))]
        IsValid(tag) == tag \in SeqRange(TAGS)
    IN  SelectSeq(tags, IsValid)

\* create_questions.py, lines 69-92
create_questions(response) ==
    IF response.raised THEN <<>>
    ELSE extract_questions_from_response(response.text)

\* predict_questions.py, lines 56-87
forecast_question(response) ==
    IF response.raised \/ extract_probability_from_response(response.text).raised
    THEN None
    ELSE extract_probability_from_response(response.text).value

\* resolve_questions.py, lines 50-74
resolve_question(response) ==
    IF response.raised \/ extract_answer_from_response(response.text).raised
    THEN "ambiguous"
    ELSE extract_answer_from_response(response.text).value

\* tagging.py, lines 53-81
check_short_story_async(response) ==
    IF response.raised THEN TRUE
    ELSE "not a short story" \notin SeqRange(extract_tags_from_response(response.text))

\* tagging.py, lines 83-121
tag_story_text(response) ==
    IF response.raised THEN <<>>
    ELSE extract_tags_from_response(response.text)

\* tagging.py, lines 129-132: what tag_story returns once the title check
\* has let the story through.
tag_story(response) ==
    LET tags == tag_story_text(response)
    IN  IF tags # <<>> /\ "not a short story" \notin SeqRange(tags)
        THEN tags ELSE <<>>

\* The stories a run is given, in the order of the input file: a name of
\* the question text per question the story has.
QText == <<"q0", "q1", "q2", "q3">>

\* A story with n questions: a record of results.json with its questions
\* key for predict_questions; for resolve_questions a record of
\* short_stories.json whose questions stand for questions_dict[data["id"]].
StoryData(s, n) == [id |-> s, questions |-> SubSeq(QText, 1, n)]

\* A story without questions: a record of results.json that has no
\* questions key, or a story the questions file has no entry for.  It is
\* also a record of create_questions, and one of tagging without Title.
StoryOnly(s) == [id |-> s]

\* A record of metadata_clean.json with its Title.
Titled(s) == [id |-> s, Title |-> "T"]

\* create_questions and tagging make one task per story, predict_questions
\* and resolve_questions one per question of a story.
PerQuestion(st) == st \in {"predict_questions", "resolve_questions"}

\* The records stage st can find for story s.
StoryShapes(st, s) ==
    CASE st = "create_questions" -> {StoryOnly(s)}
      [] st = "tagging"          -> {StoryOnly(s), Titled(s)}
      [] OTHER -> {StoryOnly(s)} \cup {StoryData(s, n) : n \in 0..MaxQuestions}

\* The tasks list of main: the process_story calls, in creation order.
\* questions_dict[data["id"]] (resolve_questions.py:107) and
\* data["questions"] (predict_questions.py:129) raise KeyError for a story
\* without questions: main ends there and no list is left.
RECURSIVE TaskList(_, _)
TaskList(st, md) ==
    IF md = <<>> THEN [raised |-> FALSE, tasks |-> <<>>]
    ELSE LET data == Head(md)
         IN  IF PerQuestion(st) /\ "questions" \notin DOMAIN data
             THEN [raised |-> TRUE, tasks |-> <<>>]
             ELSE LET n == IF PerQuestion(st) THEN Len(data.questions) ELSE 1
                      rest == TaskList(st, Tail(md))
                  IN  IF rest.raised THEN rest
                      ELSE [raised |-> FALSE,
                            tasks |-> [i \in 1..n |->
                                          [data |-> data, question_idx |-> i - 1]]
                                      \o rest.tasks]

\* The runs of up to MaxTasks tasks.
MetadataLists(st) ==
    LET all == {<<>>} \cup {<<d>> : d \in StoryShapes(st, "s1")}
                      \cup {<<d, e>> : d \in StoryShapes(st, "s1"),
                                       e \in StoryShapes(st, "s2")}
    IN  {md \in all : Len(TaskList(st, md).tasks) <= MaxTasks}

\* What the remote model answers to the call of a task; tagging calls twice,
\* for the title check and for the tags.
Responses(st) ==
    CASE st = "create_questions" ->
             {Raises, Text(<<>>), Text(<<Seg("question", " q0 "), Seg("question", "q1\nq1")>>)}
      [] st = "predict_questions" ->
             {Raises, Text(<<Seg("answer", "80%")>>), Text(<<Seg("answer", "5%")>>),
              Text(<<Seg("answer", "100%")>>),
              Text(<<Seg("answer", "80%"), Seg("answer", "5%")>>)}
      [] st = "resolve_questions" ->
             {Raises, Text(<<Seg("answer", "yes")>>), Text(<<Seg("answer", " no\n")>>),
              Text(<<Seg("answer", "ambiguous")>>), Text(<<Seg("answer", "Yes")>>),
              Text(<<Seg("answer", "yes"), Seg("answer", "no")>>)}
      [] st = "tagging" ->
             {Raises,
              Text(<<Seg("tag", "Mystery "), Seg("tag", "poem"), Seg("TAG", "horror")>>),
              Text(<<Seg("tag", "drama\n"), Seg("Tag", " Horror")>>),
              Text(<<Seg("tag", "not a short story")>>)}

CheckResponses(st) ==
    IF st = "tagging"
    THEN {Raises, Text(<<Seg("tag", "short story")>>),
          Text(<<Seg("Tag", "Not a short story")>>)}
    ELSE {Raises}

\* The story ids of a list of records.
Ids(md) == {md[i].id : i \in 1..Len(md)}

\* main before it makes its tasks: the input files are read.  The
\* responses are those of the calls the tasks of the run can make.
InitStage ==
    /\ results = EmptyDict
    /\ results_order = <<>>
    /\ flash_forecasts = EmptyDict
    /\ flash_lite_forecasts = EmptyDict
    /\ InitAnalysis
    /\ call = IdleCall
    /\ IdleRank
    /\ stage \in Stages
    /\ metadata \in MetadataLists(stage)
    /\ tasks = <<>>
    /\ IF TaskList(stage, metadata).raised
       THEN responses = <<>>
       ELSE responses \in [1..Len(TaskList(stage, metadata).tasks) ->
                              [check : CheckResponses(stage),
                               generate : Responses(stage)]]
    /\ files \in SUBSET Ids(metadata)
    /\ late = {}
    /\ task_pc = <<>>
    /\ semaphore = max_concurrent_tasks(stage)
    /\ gate = NoGate
    /\ completed = <<>>
    /\ gathered = <<>>
    /\ main_pc = "start"
    /\ written = <<>>
    /\ writes = 0
    /\ example_log = <<>>

\* main makes the list tasks and enters the loop over as_completed(tasks),
\* or ends with the KeyError of a story without questions: no task has run
\* and nothing is written.
CreateTasks ==
    /\ main_pc = "start"
    /\ LET made == TaskList(stage, metadata)
       IN  /\ tasks' = made.tasks
           /\ task_pc' = [t \in 1..Len(made.tasks) |-> "created"]
           /\ main_pc' = IF made.raised THEN "raised" ELSE "loop"
    /\ UNCHANGED <<stage, metadata, responses, files, late, semaphore, gate, completed,
                   gathered, written, writes, example_log>>
    /\ UNCHANGED <<inputVars, analysisVars, call, rankVars>>

\* The first await of a task that holds the semaphore.
FirstCall(st) == IF st = "tagging" THEN "checking" ELSE "calling"

\* What process_story raises before its first call, "none" when nothing:
\* open(file_path) of the story file (create_questions.py:98,
\* predict_questions.py:93, resolve_questions.py:80) and metadata["Title"]
\* (tagging.py:127) stand outside every try.
RaisedAtStart(t) ==
    IF stage = "tagging"
    THEN IF "Title" \in DOMAIN tasks[t].data THEN "none" ELSE "KeyError"
    ELSE IF tasks[t].data.id \in files THEN "none" ELSE "FileNotFoundError"

\* The exception leaves process_story: the future of the task holds it.
Raise(t, exception) ==
    /\ completed' = Append(completed, [task |-> t, exception |-> exception])
    /\ task_pc' = [task_pc EXCEPT ![t] = "raised"]

\* async with semaphore, entry, and the task up to its first await.  A task
\* that raises there has given its slot back in the same step.  A run of up
\* to MaxTasks tasks never uses up the slots, so that no task has to wait
\* here (SpecGate has the runs that do).
Acquire(t) ==
    /\ main_pc = "loop"
    /\ task_pc[t] = "created"
    /\ semaphore > 0
    /\ IF RaisedAtStart(t) = "none"
       THEN /\ semaphore' = semaphore - 1
            /\ task_pc' = [task_pc EXCEPT ![t] = FirstCall(stage)]
            /\ UNCHANGED completed
       ELSE /\ Raise(t, RaisedAtStart(t))
            /\ UNCHANGED semaphore
    /\ UNCHANGED <<stage, metadata, tasks, responses, files, late, gate, gathered,
                   main_pc, written, writes, example_log>>
    /\ UNCHANGED <<inputVars, analysisVars, call, rankVars>>

\* async with semaphore, exit: the slot is given back, however the block
\* was left.
Release(raised) == semaphore + 1

\* A task that is inside runs when its call has answered: while main
\* gathers, and once more after an exception has ended main, since
\* asyncio.run lets the event loop finish its round before it cancels the
\* tasks.
Runs(t) ==
    /\ \/ main_pc = "loop"
       \/ main_pc = "raised" /\ t \notin late
    /\ late' = IF main_pc = "raised" THEN late \cup {t} ELSE late

\* process_story returns: the slot is released and the result is ready for
\* as_completed.
Return(t, raised, result) ==
    /\ semaphore' = Release(raised)
    /\ completed' = Append(completed, [task |-> t, result |-> result])
    /\ task_pc' = [task_pc EXCEPT ![t] = "returned"]

\* tag_story, lines 127-129: the title check has answered; a story that
\* passes has its file opened, outside every try, and goes on to the
\* tagging call.
CheckTitle(t) ==
    /\ Runs(t)
    /\ task_pc[t] = "checking"
    /\ IF check_short_story_async(responses[t].check)
       THEN IF tasks[t].data.id \in files
            THEN /\ task_pc' = [task_pc EXCEPT ![t] = "calling"]
                 /\ UNCHANGED <<semaphore, completed>>
            ELSE /\ Raise(t, "FileNotFoundError")
                 /\ semaphore' = Release(TRUE)
       ELSE Return(t, FALSE, <<>>)
    /\ UNCHANGED <<stage, metadata, tasks, responses, files, gate, gathered,
                   main_pc, written, writes, example_log>>
    /\ UNCHANGED <<inputVars, analysisVars, call, rankVars>>

\* What the task's function makes of the response.
TaskResult(st, response) ==
    CASE st = "create_questions"  -> create_questions(response)
      [] st = "predict_questions" -> forecast_question(response)
      [] st = "resolve_questions" -> resolve_question(response)
      [] st = "tagging"           -> tag_story(response)

\* forecast_question, lines 75-81: some responses are appended to the
\* example file.
LogExample(t) ==
    Append(example_log, [question |-> tasks[t].data.questions[tasks[t].question_idx + 1],
                         response |-> responses[t].generate.text])

\* The remote call of the task has answered or raised, and process_story
\* returns; the result of a task that returns after main has ended is
\* never gathered.
Respond(t) ==
    /\ Runs(t)
    /\ task_pc[t] = "calling"
    /\ Return(t, responses[t].generate.raised,
              TaskResult(stage, responses[t].generate))
    /\ IF stage = "predict_questions" /\ ~responses[t].generate.raised
       THEN example_log' \in {example_log, LogExample(t)}
       ELSE UNCHANGED example_log
    /\ UNCHANGED <<stage, metadata, tasks, responses, files, gate, gathered,
                   main_pc, written, writes>>
    /\ UNCHANGED <<inputVars, analysisVars, call, rankVars>>

\* Mutant: the loop body appends every result.
Keep_everything(st, result) == TRUE

\* The test of the loop body: the result is no sentinel.
Keep(st, result) ==
    CASE st = "create_questions"  -> result # <<>>
      [] st = "predict_questions" -> result # None
      [] st = "resolve_questions" -> result # "ambiguous"
      [] st = "tagging"           -> result # <<>>

\* What the loop body appends for a result it keeps; in tagging it is the
\* record of the story, every key of it, with the key tags set.
Entry(st, task, result) ==
    CASE st = "create_questions" ->
             [id |-> task.data.id, questions |-> result]
      [] st = "predict_questions" ->
             [id |-> task.data.id, question_idx |-> task.question_idx,
              answer |-> result]
      [] st = "resolve_questions" ->
             [id |-> task.data.id,
              question |-> task.data.questions[task.question_idx + 1],
              answer |-> result]
      [] st = "tagging" ->
             [tags |-> result] @@ task.data

\* One turn of the loop over as_completed(tasks): `await future` of the
\* oldest future not handed out yet.  A result goes to the loop body; the
\* exception of a task that raised leaves main, which ends without the
\* dump.  as_completed has scheduled every task before main waits for the
\* first future, and the event loop runs what is scheduled in order: main
\* goes on when every task has run up to its first await.
Collect ==
    /\ main_pc = "loop"
    /\ completed # <<>>
    /\ \A u \in 1..Len(tasks) : task_pc[u] # "created"
    /\ LET t == Head(completed).task
       IN  IF "exception" \in DOMAIN Head(completed)
           THEN /\ main_pc' = "raised"
                /\ UNCHANGED <<gathered, task_pc>>
           ELSE /\ gathered' = IF Keep(stage, Head(completed).result)
                               THEN Append(gathered,
                                           Entry(stage, tasks[t], Head(completed).result))
                               ELSE gathered
                /\ task_pc' = [task_pc EXCEPT ![t] = "collected"]
                /\ UNCHANGED main_pc
    /\ completed' = Tail(completed)
    /\ UNCHANGED <<stage, metadata, tasks, responses, files, late, semaphore, gate,
                   written, writes, example_log>>
    /\ UNCHANGED <<inputVars, analysisVars, call, rankVars>>

\* The tasks that hold a slot: with no task left to wait for one, they are
\* the tasks that have not ended.
Inside == {t \in 1..Len(tasks) : task_pc[t] \in {"checking", "calling"}}

\* asyncio.run(main()) after the exception has left main: it cancels the
\* tasks that have not ended, whether they have run since or not, and those
\* inside give their slots back.
CancelAll ==
    /\ main_pc = "raised"
    /\ Inside # {}
    /\ task_pc' = [t \in 1..Len(tasks) |->
                      IF t \in Inside THEN "cancelled" ELSE task_pc[t]]
    /\ semaphore' = semaphore + Cardinality(Inside)
    /\ UNCHANGED <<stage, metadata, tasks, responses, files, late, gate, completed,
                   gathered, main_pc, written, writes, example_log>>
    /\ UNCHANGED <<inputVars, analysisVars, call, rankVars>>

\* Mutant: a forecast is stored under its question index alone, in the
\* entry of the first story gathered.
StoreForecast_first_story(d, forecast) ==
    IF d = EmptyDict
    THEN Put(d, forecast.id, Put(EmptyDict, str(forecast.question_idx), forecast.answer))
    ELSE LET first == CHOOSE k \in DOMAIN d : TRUE
         IN  Put(d, first, Put(d[first], str(forecast.question_idx), forecast.answer))

\* predict_questions.main, lines 147-150; json.dump writes the integer key
\* question_idx as a string.
StoreForecast(d, forecast) ==
    Put(d, forecast.id,
        Put(Get(d, forecast.id, EmptyDict), str(forecast.question_idx),
            forecast.answer))

\* predict_questions.main, lines 144-150
RECURSIVE forecasts_by_story(_, _)
forecasts_by_story(d, forecasts) ==
    IF forecasts = <<>> THEN d
    ELSE forecasts_by_story(StoreForecast(d, Head(forecasts)), Tail(forecasts))

\* resolve_questions.main, lines 123-128
StoreAnswer(d, result) ==
    LET data == d[result.id]
        qa == [question |-> result.question, answer |-> result.answer]
    IN  Put(d, result.id,
            IF "questions" \in DOMAIN data
            THEN [data EXCEPT !.questions = Append(@, qa)]
            ELSE data @@ [questions |-> <<qa>>])

\* resolve_questions.main, lines 121-128; a story of the metadata file has
\* no questions key.
RECURSIVE ret_results(_, _)
ret_results(d, rs) ==
    IF rs = <<>> THEN d
    ELSE ret_results(StoreAnswer(d, Head(rs)), Tail(rs))

MetadataById(md) == [s \in Ids(md) |-> [id |-> s]]

\* What main dumps into the output file.
Output(st) ==
    CASE st = "create_questions"  -> gathered
      [] st = "predict_questions" -> forecasts_by_story(EmptyDict, gathered)
      [] st = "resolve_questions" -> ret_results(MetadataById(metadata), gathered)
      [] st = "tagging"           -> gathered

\* The loop over as_completed(tasks) has ended: every task has completed
\* and handed its result to the loop.
AllCollected == \A t \in 1..Len(tasks) : task_pc[t] = "collected"

\* The dump at the end of main.
Write ==
    /\ main_pc = "loop"
    /\ AllCollected
    /\ written' = Output(stage)
    /\ writes' = writes + 1
    /\ main_pc' = "written"
    /\ UNCHANGED <<stage, metadata, tasks, responses, files, late, task_pc, semaphore,
                   gate, completed, gathered, example_log>>
    /\ UNCHANGED <<inputVars, analysisVars, call, rankVars>>

NextStage ==
    \/ CreateTasks
    \/ \E t \in 1..Len(tasks) : Acquire(t)
    \/ \E t \in 1..Len(tasks) : CheckTitle(t)
    \/ \E t \in 1..Len(tasks) : Respond(t)
    \/ Collect
    \/ CancelAll
    \/ Write

SpecStage == InitStage /\ [][NextStage]_vars

-----------------------------------------------------------------------------
(* The semaphore of a large run: as many process_story tasks as the        *)
(* semaphore has slots, or a few more or fewer.  The tasks are counted by  *)
(* where they are; what they return plays no part.                         *)

\* The largest difference between the number of tasks and of slots.
MaxExtra == 2

\* main at the loop over as_completed(tasks), its tasks made.
InitGate ==
    /\ results = EmptyDict
    /\ results_order = <<>>
    /\ flash_forecasts = EmptyDict
    /\ flash_lite_forecasts = EmptyDict
    /\ InitAnalysis
    /\ call = IdleCall
    /\ IdleRank
    /\ stage \in Stages
    /\ \E n \in (max_concurrent_tasks(stage) - MaxExtra)
                 ..(max_concurrent_tasks(stage) + MaxExtra) :
           gate = [NoGate EXCEPT !.created = n]
    /\ semaphore = max_concurrent_tasks(stage)
    /\ metadata = <<>>
    /\ tasks = <<>>
    /\ responses = <<>>
    /\ files = {}
    /\ late = {}
    /\ task_pc = <<>>
    /\ completed = <<>>
    /\ gathered = <<>>
    /\ main_pc = "loop"
    /\ written = <<>>
    /\ writes = 0
    /\ example_log = <<>>

\* The tasks of the run.
GateTasks ==
    gate.created + gate.waiting + gate.woken + gate.inside + gate.done
        + gate.raised + gate.cancelled

\* asyncio.run has not begun to cancel the tasks.
GateOpen == gate.cancelled = 0

\* Semaphore.release: the counter goes up by one and _wake_up_next hands
\* the slot to the oldest waiter at once, when there is one: the counter
\* is as before and the waiter will run.
GateRelease(g) ==
    IF g.waiting > 0
    THEN /\ gate' = [g EXCEPT !.waiting = @ - 1, !.woken = @ + 1]
         /\ UNCHANGED semaphore
    ELSE /\ gate' = g
         /\ semaphore' = semaphore + 1

\* A task that has a slot runs up to its first await: it makes its first
\* call, or raises before it (the story file, the Title key) and gives the
\* slot back in the same step.  taken: the task takes the slot off the
\* counter itself; a woken waiter has it from the release that woke it.
GateEnter(from, taken, starts) ==
    IF starts
    THEN /\ semaphore' = IF taken THEN semaphore - 1 ELSE semaphore
         /\ gate' = [gate EXCEPT ![from] = @ - 1, !.inside = @ + 1,
                                 !.late = IF main_pc = "raised" THEN @ + 1 ELSE @]
    ELSE IF taken
         THEN /\ gate' = [gate EXCEPT ![from] = @ - 1, !.raised = @ + 1]
              /\ UNCHANGED semaphore
         ELSE GateRelease([gate EXCEPT ![from] = @ - 1, !.raised = @ + 1])

\* async with semaphore, entry, in the first round of the event loop: a
\* task takes a slot, or queues up when there is none or others queue
\* already.
GateAcquire ==
    /\ main_pc = "loop"
    /\ gate.created > 0
    /\ IF semaphore > 0 /\ gate.waiting + gate.woken = 0
       THEN \E starts \in BOOLEAN : GateEnter("created", TRUE, starts)
       ELSE /\ gate' = [gate EXCEPT !.created = @ - 1, !.waiting = @ + 1]
            /\ UNCHANGED semaphore
    /\ UNCHANGED <<stage, metadata, tasks, responses, files, late, task_pc, completed,
                   gathered, main_pc, written, writes, example_log>>
    /\ UNCHANGED <<inputVars, analysisVars, call, rankVars>>

\* A waiter that a release has woken runs: it is inside, with the slot the
\* release gave it.  It runs too when main has ended in between.
GateWake ==
    /\ main_pc \in {"loop", "raised"}
    /\ GateOpen
    /\ gate.woken > 0
    /\ \E starts \in BOOLEAN : GateEnter("woken", FALSE, starts)
    /\ UNCHANGED <<stage, metadata, tasks, responses, files, late, task_pc, completed,
                   gathered, main_pc, written, writes, example_log>>
    /\ UNCHANGED <<inputVars, analysisVars, call, rankVars>>

\* A task inside runs when its call has answered or raised: after every
\* task has run up to its first await, while main gathers, and once more
\* after an exception has ended main (a task that got in after that has its
\* call still in flight), until asyncio.run cancels the tasks.
GateRuns ==
    /\ gate.created = 0
    /\ GateOpen
    /\ \/ main_pc = "loop" /\ gate.inside > 0
       \/ main_pc = "raised" /\ gate.inside > gate.late

\* The remote call of a task inside has answered or raised: the except
\* clause turns the exception into the sentinel, process_story returns and
\* the slot is released.
GateReturn ==
    /\ GateRuns
    /\ GateRelease([gate EXCEPT !.inside = @ - 1, !.done = @ + 1])
    /\ UNCHANGED <<stage, metadata, tasks, responses, files, late, task_pc, completed,
                   gathered, main_pc, written, writes, example_log>>
    /\ UNCHANGED <<inputVars, analysisVars, call, rankVars>>

\* tag_story, lines 128-129: a task of tagging whose title check has passed
\* cannot open its story file; the exception leaves process_story and the
\* slot is released.
GateRaise ==
    /\ GateRuns
    /\ stage = "tagging"
    /\ GateRelease([gate EXCEPT !.inside = @ - 1, !.raised = @ + 1])
    /\ UNCHANGED <<stage, metadata, tasks, responses, files, late, task_pc, completed,
                   gathered, main_pc, written, writes, example_log>>
    /\ UNCHANGED <<inputVars, analysisVars, call, rankVars>>

\* `await future` of a task that raised: the exception ends main.  Every
\* task has run up to its first await by then: it is inside, waits for a
\* slot or has ended.
GateAbort ==
    /\ main_pc = "loop"
    /\ gate.raised > 0
    /\ gate.created = 0
    /\ main_pc' = "raised"
    /\ UNCHANGED <<stage, metadata, tasks, responses, files, late, task_pc, semaphore,
                   gate, completed, gathered, written, writes, example_log>>
    /\ UNCHANGED <<inputVars, analysisVars, call, rankVars>>

\* asyncio.run(main()) after the exception has left main: it cancels the
\* tasks that have not ended, and each of them ends in a step of its own,
\* in no order the code fixes.  A task inside leaves async with and gives
\* its slot back, and so does a waiter woken with a slot; a waiter that has
\* none gives none back.  No waiter is left to be woken by these releases:
\* the future of every waiter is cancelled or set.
GateCancel ==
    /\ main_pc = "raised"
    /\ \/ /\ gate.waiting > 0
          /\ gate' = [gate EXCEPT !.waiting = @ - 1, !.cancelled = @ + 1]
          /\ UNCHANGED semaphore
       \/ /\ gate.woken > 0
          /\ gate' = [gate EXCEPT !.woken = @ - 1, !.cancelled = @ + 1]
          /\ semaphore' = semaphore + 1
       \/ /\ gate.inside > 0
          /\ \E l \in {gate.late - 1, gate.late} :
                 /\ l >= 0
                 /\ l <= gate.inside - 1
                 /\ gate' = [gate EXCEPT !.inside = @ - 1, !.late = l,
                                         !.cancelled = @ + 1]
          /\ semaphore' = semaphore + 1
    /\ UNCHANGED <<stage, metadata, tasks, responses, files, late, task_pc, completed,
                   gathered, main_pc, written, writes, example_log>>
    /\ UNCHANGED <<inputVars, analysisVars, call, rankVars>>

\* The loop over as_completed(tasks) has ended, every task has returned:
\* main dumps what it gathered.  What the file holds is no part of this
\* specification.
GateWrite ==
    /\ main_pc = "loop"
    /\ gate.done = GateTasks
    /\ main_pc' = "written"
    /\ writes' = writes + 1
    /\ UNCHANGED <<stage, metadata, tasks, responses, files, late, task_pc, semaphore,
                   gate, completed, gathered, written, example_log>>
    /\ UNCHANGED <<inputVars, analysisVars, call, rankVars>>

NextGate ==
    \/ GateAcquire
    \/ GateWake
    \/ GateReturn
    \/ GateRaise
    \/ GateAbort
    \/ GateCancel
    \/ GateWrite

\* The event loop runs every task that can run, a remote call answers or
\* raises in the end, and main runs when a future is ready.
SpecGate ==
    /\ InitGate
    /\ [][NextGate]_vars
    /\ WF_vars(GateAcquire)
    /\ WF_vars(GateWake)
    /\ WF_vars(GateReturn)
    /\ WF_vars(GateAbort)
    /\ WF_vars(GateCancel)
    /\ WF_vars(GateWrite)

Next ==
    \/ SkipErrorStory
    \/ SkipUnjoinedStory
    \/ BeginQuestions
    \/ ProcessQuestion
    \/ EndQuestions
    \/ CalcStoryAvg
    \/ CalcModelAvg
    \/ CalcTagAvg

Spec == Init /\ [][Next]_vars

SpecOrder == InitOrder /\ [][Next]_vars

-----------------------------------------------------------------------------
(* What the claims speak of, read off the inputs.                          *)

\* The record of story s carries a truthy error flag.
ErrorFlagged(s) == "error" \in DOMAIN results[s] /\ results[s]["error"] = TRUE

\* Story s is in the forecast mapping of both models.
Joined(s) == s \in DOMAIN flash_forecasts /\ s \in DOMAIN flash_lite_forecasts

QuestionsOf(s) == IF "questions" \in DOMAIN results[s] THEN results[s]["questions"] ELSE <<>>

TagsOf(s) == IF "tags" \in DOMAIN results[s] THEN results[s]["tags"] ELSE <<>>

\* The stories whose average went into some tag's pool.
TagContributors == UNION {SeqRange(tag_sources[t]) : t \in DOMAIN tag_sources}

\* The scores of the table row d, in question order.
RowScores(d) == IdxValues(d, 1)

\* The flash log scores of the questions of s from index i on, from the inputs.
RECURSIVE ExpectedFlash(_, _)
ExpectedFlash(s, i) ==
    IF i >= Len(QuestionsOf(s)) THEN <<>>
    ELSE IF str(i) \in DOMAIN flash_forecasts[s]
         THEN <<calculate_log_score(flash_forecasts[s][str(i)],
                                    QuestionsOf(s)[i + 1]["answer"]).value>>
              \o ExpectedFlash(s, i + 1)
         ELSE ExpectedFlash(s, i + 1)

\* The two-model scenario of the specification, as story s1.
ScenarioS1 ==
    /\ results["s1"] = [Title |-> "A", tags |-> <<"mystery">>,
                        questions |-> <<[answer |-> "yes"], [answer |-> "no"]>>]
    /\ "s1" \in DOMAIN flash_forecasts
    /\ flash_forecasts["s1"] = ("0" :> 800) @@ ("1" :> 300)
    /\ "s1" \in DOMAIN flash_lite_forecasts
    /\ flash_lite_forecasts["s1"] = ("0" :> 600) @@ ("1" :> 400)

-----------------------------------------------------------------------------
(* The claims.                                                             *)

\* C1: a story of results that is missing from the forecast mapping of at
\* least one model has no log score anywhere: no row in all_scores of either
\* model, no story-level list, no entry in story_avg_scores, and its average
\* is in no tag's pool.
C1_UnjoinedStoryHasNoScore ==
    \A s \in DOMAIN results :
        ~Joined(s) =>
            /\ s \notin DOMAIN all_scores["flash"]
            /\ s \notin DOMAIN all_scores["flash_lite"]
            /\ s \notin DOMAIN story_scores
            /\ s \notin DOMAIN story_avg_scores
            /\ s \notin TagContributors

\* The call has returned; s1, with a tag and a question that flash forecast,
\* is missing from flash_lite's mapping, and s2 was scored and tagged.
C1_Witness ==
    /\ pc = "done"
    /\ ~ErrorFlagged("s1")
    /\ "s1" \in DOMAIN flash_forecasts
    /\ "s1" \notin DOMAIN flash_lite_forecasts
    /\ Len(QuestionsOf("s1")) >= 1
    /\ "0" \in DOMAIN flash_forecasts["s1"]
    /\ TagsOf("s1") # <<>>
    /\ "s2" \in DOMAIN story_avg_scores
    /\ "s2" \in TagContributors

\* C2 (as claimed): when the call has returned, story_titles has an entry
\* for a story exactly when the story is not error-flagged and is in the
\* forecast mapping of both models.
C2_TitlesExactlyJoined ==
    pc = "done" =>
        \A s \in DOMAIN results :
            s \in DOMAIN story_titles <=> (~ErrorFlagged(s) /\ Joined(s))

\* C3 (as claimed): story_avg_scores[s] is the mean of the log scores of
\* both models for the questions of s.
C3_StoryAvgPoolsBothModels ==
    pc = "done" =>
        \A s \in DOMAIN story_avg_scores :
            story_avg_scores[s] =
                np_mean(RowScores(Get(all_scores["flash"], s, EmptyDict))
                        \o RowScores(Get(all_scores["flash_lite"], s, EmptyDict)))

\* C3 (amended): the story-level list of a story holds the flash log scores
\* of its questions, in question order, and nothing else; in the two-model
\* scenario story_avg_scores["s1"] is the mean of ln 0.8 and ln 0.7, with
\* all four scores in all_scores.
C3_StoryListHoldsFlashScores ==
    /\ \A s \in DOMAIN story_scores :
           /\ s \in DOMAIN all_scores["flash"]
           /\ story_scores[s] = RowScores(all_scores["flash"][s])
    /\ (pc = "done" /\ ScenarioS1) =>
           /\ all_scores["flash"]["s1"] = ("0" :> -223144) @@ ("1" :> -356675)
           /\ all_scores["flash_lite"]["s1"] = ("0" :> -510826) @@ ("1" :> -510826)
           /\ story_avg_scores["s1"] = (-223144 + -356675) \div 2

\* The two-model scenario has been analysed.
C3_Witness ==
    /\ pc = "done"
    /\ ScenarioS1
    /\ Len(story_scores["s1"]) = 2

\* C4: a story whose record carries a truthy error flag is in no output:
\* not in all_scores of either model, not in story_avg_scores, not in
\* story_titles, and in no tag's pool, whatever the forecasts hold for it.
C4_ErrorStoryInNoOutput ==
    \A s \in DOMAIN results :
        ErrorFlagged(s) =>
            /\ s \notin DOMAIN all_scores["flash"]
            /\ s \notin DOMAIN all_scores["flash_lite"]
            /\ s \notin DOMAIN story_scores
            /\ s \notin DOMAIN story_avg_scores
            /\ s \notin DOMAIN story_titles
            /\ s \notin DOMAIN story_tags
            /\ s \notin TagContributors

\* The call has returned; s1 is error-flagged, has questions and tags and a
\* forecast of both models for its first question, and s2 is in the outputs.
C4_Witness ==
    /\ pc = "done"
    /\ ErrorFlagged("s1")
    /\ Joined("s1")
    /\ Len(QuestionsOf("s1")) >= 1
    /\ "0" \in DOMAIN flash_forecasts["s1"]
    /\ "0" \in DOMAIN flash_lite_forecasts["s1"]
    /\ TagsOf("s1") # <<>>
    /\ "s2" \in DOMAIN story_avg_scores
    /\ "s2" \in DOMAIN story_titles
    /\ "s2" \in TagContributors

\* C5 (as claimed): calculate_log_score fails with an error whenever actual
\* is neither "yes" nor "no".
C5_MalformedAnswerFails ==
    (call.ret # <<>> /\ call.actual \notin {"yes", "no"}) =>
        (call.ret[1].raised /\ call.ret[2].raised)

\* x clipped to [lo, hi].
Clip(x, lo, hi) == IF x < lo THEN lo ELSE IF x > hi THEN hi ELSE x

\* C6: for p in [0,1], calculate_log_score(p, "yes") is ln of p clipped to
\* [0.01, 1] and calculate_log_score(p, "no") is ln of 1 - p clipped to
\* [0.01, 1]; score(0, "yes") = score(0.01, "yes") = score(1, "no") = ln 0.01.
C6_ScoreIsClippedLog ==
    call.ret # <<>> =>
        /\ call.actual = "yes" =>
               /\ call.ret[1] = [raised |-> FALSE,
                                 value |-> LnMicro[Clip(call.p1, 10, 1000)]]
               /\ call.p1 \in {0, 10} => call.ret[1].value = -4605170
        /\ call.actual = "no" =>
               /\ call.ret[1] = [raised |-> FALSE,
                                 value |-> LnMicro[Clip(1000 - call.p1, 10, 1000)]]
               /\ call.p1 = 1000 => call.ret[1].value = -4605170

\* score(0.0, "yes") and score(0.01, "yes") have been computed.
C6_Witness ==
    /\ call.ret # <<>>
    /\ call.actual = "yes"
    /\ call.p1 = 0
    /\ call.p2 = 10
    /\ call.ret[1].value = call.ret[2].value

IsNaN(x) == x = NaN

\* Python's float comparisons: every comparison with nan is False.
FloatLeq(x, y) == ~IsNaN(x) /\ ~IsNaN(y) /\ x <= y
FloatLess(x, y) == ~IsNaN(x) /\ ~IsNaN(y) /\ x < y

\* Every log score of the score table is at most 0 and at least ln 0.01.
ScoresBounded ==
    \A m \in DOMAIN all_scores : \A s \in DOMAIN all_scores[m] :
        \A k \in DOMAIN all_scores[m][s] :
            /\ all_scores[m][s][k] <= 0
            /\ all_scores[m][s][k] >= -4605170

AverageBounded(avg) == FloatLeq(avg, 0) /\ ~FloatLess(avg, -4605170)

\* C7 (as claimed): for valid inputs every log score stored in all_scores,
\* and every story, model and tag average, is at most 0 and not below
\* ln 0.01.
C7_ScoresAndAveragesBounded ==
    /\ ScoresBounded
    /\ pc = "done" =>
           /\ \A s \in DOMAIN story_avg_scores : AverageBounded(story_avg_scores[s])
           /\ \A m \in DOMAIN model_avg_scores : AverageBounded(model_avg_scores[m])
           /\ \A t \in DOMAIN tag_avg_scores : AverageBounded(tag_avg_scores[t])

\* C8 (as claimed): calculate_log_score(p, "yes") is strictly increasing in
\* p over (0,1] and calculate_log_score(p, "no") strictly decreasing over
\* [0,1).
C8_StrictlyMonotone ==
    (call.ret # <<>> /\ call.p1 < call.p2) =>
        /\ (call.actual = "yes" /\ call.p1 > 0) =>
               call.ret[1].value < call.ret[2].value
        /\ (call.actual = "no" /\ call.p2 < 1000) =>
               call.ret[1].value > call.ret[2].value

\* C8 (amended): calculate_log_score(p, "yes") is strictly increasing in p
\* over [0.01, 1] and constant, ln 0.01, over [0, 0.01];
\* calculate_log_score(p, "no") is strictly decreasing over [0, 0.99] and
\* constant, ln 0.01, over [0.99, 1].
C8_MonotoneOutsideClip ==
    (call.ret # <<>> /\ call.p1 < call.p2) =>
        /\ call.actual = "yes" =>
               IF call.p2 <= 10
               THEN call.ret[1].value = call.ret[2].value
                    /\ call.ret[1].value = -4605170
               ELSE call.ret[1].value < call.ret[2].value
        /\ call.actual = "no" =>
               IF call.p1 >= 990
               THEN call.ret[1].value = call.ret[2].value
                    /\ call.ret[1].value = -4605170
               ELSE call.ret[1].value > call.ret[2].value

\* score(0.005, "yes") and score(0.01, "yes") have been computed: two
\* probabilities of (0,1] with the same score.
C8_Witness ==
    /\ call.ret # <<>>
    /\ call.actual = "yes"
    /\ call.p1 = 5
    /\ call.p2 = 10

\* C9 (as claimed): no average mapping that analyze_predictions returns
\* holds the mean of an empty list (NaN): the call fails instead.
C9_NoEmptyMean ==
    pc = "done" =>
        /\ \A s \in DOMAIN story_avg_scores : ~IsNaN(story_avg_scores[s])
        /\ \A m \in DOMAIN model_avg_scores : ~IsNaN(model_avg_scores[m])
        /\ \A t \in DOMAIN tag_avg_scores : ~IsNaN(tag_avg_scores[t])

\* C10: story_avg_scores[s] is the mean of the flash log scores of s, s has
\* an entry exactly when it is joined, not error-flagged and flash forecast
\* at least one of its questions, and flash_lite's forecasts are never part
\* of the value.
C10_StoryAvgIsFlashMean ==
    pc = "done" =>
        /\ DOMAIN story_avg_scores =
               {s \in DOMAIN results :
                    ~ErrorFlagged(s) /\ Joined(s) /\ ExpectedFlash(s, 0) # <<>>}
        /\ \A s \in DOMAIN story_avg_scores :
               story_avg_scores[s] =
                   SumSeq(ExpectedFlash(s, 0)) \div Len(ExpectedFlash(s, 0))

\* The call has returned; both models forecast the first question of s1,
\* with different scores, and s1 has a story average.
C10_Witness ==
    /\ pc = "done"
    /\ "s1" \in DOMAIN story_avg_scores
    /\ "0" \in DOMAIN all_scores["flash"]["s1"]
    /\ "s1" \in DOMAIN all_scores["flash_lite"]
    /\ "0" \in DOMAIN all_scores["flash_lite"]["s1"]
    /\ all_scores["flash"]["s1"]["0"] # all_scores["flash_lite"]["s1"]["0"]

-----------------------------------------------------------------------------
(* Claims C11 to C13: the tag and model averages and the missing forecasts. *)

\* Every tag of a story record of results.
AllTags == UNION {SeqRange(TagsOf(s)) : s \in DOMAIN results}

\* The stories with a story average whose tags contain t.
StoriesWithTag(t) == {s \in DOMAIN story_avg_scores : t \in SeqRange(TagsOf(s))}

\* The sum of f over the set S.
RECURSIVE SumOver(_, _)
SumOver(S, f) ==
    IF S = {} THEN 0
    ELSE LET x == CHOOSE y \in S : TRUE IN f[x] + SumOver(S \ {x}, f)

\* C11: tag_avg_scores[t] is the unweighted mean of story_avg_scores[s] over
\* the stories s that have a story average and whose tags contain t; a story
\* with several tags gives its whole average once to each of them, and a tag
\* has an entry only if there is such a story.
C11_TagAvgIsMeanOfStoryAvgs ==
    pc = "done" =>
        /\ DOMAIN tag_avg_scores = {t \in AllTags : StoriesWithTag(t) # {}}
        /\ \A t \in DOMAIN tag_avg_scores :
               tag_avg_scores[t] =
                   SumOver(StoriesWithTag(t), story_avg_scores)
                       \div Cardinality(StoriesWithTag(t))

\* The forecast mapping of a model.
ForecastsOf(m) == IF m = "flash" THEN flash_forecasts ELSE flash_lite_forecasts

\* The log scores of model m for the questions of s from index i on, from
\* the inputs.
RECURSIVE ExpectedFor(_, _, _)
ExpectedFor(m, s, i) ==
    IF i >= Len(QuestionsOf(s)) THEN <<>>
    ELSE IF str(i) \in DOMAIN ForecastsOf(m)[s]
         THEN <<calculate_log_score(ForecastsOf(m)[s][str(i)],
                                    QuestionsOf(s)[i + 1]["answer"]).value>>
              \o ExpectedFor(m, s, i + 1)
         ELSE ExpectedFor(m, s, i + 1)

\* The log scores of model m for the joined stories of order, story after
\* story, from the inputs.
RECURSIVE ExpectedFlat(_, _)
ExpectedFlat(m, order) ==
    IF order = <<>> THEN <<>>
    ELSE IF ~ErrorFlagged(Head(order)) /\ Joined(Head(order))
         THEN ExpectedFor(m, Head(order), 0) \o ExpectedFlat(m, Tail(order))
         ELSE ExpectedFlat(m, Tail(order))

\* C12: model_avg_scores[m] is the mean of every log score of model m, the
\* scores of all joined stories taken as one flat list in which each scored
\* question counts once (NaN when the model has no score at all), and it is
\* computed from model m's forecasts alone.
C12_ModelAvgIsFlatMean ==
    pc = "done" =>
        \A m \in {"flash", "flash_lite"} :
            LET flat == ExpectedFlat(m, results_order)
            IN  /\ m \in DOMAIN model_avg_scores
                /\ model_avg_scores[m] =
                       IF flat = <<>> THEN NaN ELSE SumSeq(flat) \div Len(flat)

\* The call has returned; flash scored two questions of s1 and one of s2,
\* and the mean of the two story means is not the flat mean.
C12_Witness ==
    /\ pc = "done"
    /\ "s1" \in DOMAIN all_scores["flash"]
    /\ "s2" \in DOMAIN all_scores["flash"]
    /\ Cardinality(DOMAIN all_scores["flash"]["s1"]) = 2
    /\ Cardinality(DOMAIN all_scores["flash"]["s2"]) = 1
    /\ (story_avg_scores["s1"] + story_avg_scores["s2"]) \div 2
           # model_avg_scores["flash"]

\* The question index strings of the questions of s.
QuestionKeys(s) == {str(i) : i \in 0..(Len(QuestionsOf(s)) - 1)}

\* C13: a missing forecast is skipped and is no error: no exception leaves
\* the call, and for a joined story without error flag all_scores[m][s][i]
\* exists exactly when i is the index of a question of s and a key of model
\* m's forecasts for s, whatever the other model or the other questions have.
C13_ScoredExactlyWhenForecast ==
    /\ pc # "raised"
    /\ pc = "done" =>
           \A m \in {"flash", "flash_lite"} : \A s \in DOMAIN results :
               (~ErrorFlagged(s) /\ Joined(s)) =>
                   DOMAIN Get(all_scores[m], s, EmptyDict) =
                       QuestionKeys(s) \cap DOMAIN ForecastsOf(m)[s]

\* The call has returned; of the two questions of s1 flash forecast the
\* second only and flash_lite the first only, both are scored, and s2 is
\* scored as well.
C13_Witness ==
    /\ pc = "done"
    /\ ~ErrorFlagged("s1")
    /\ Joined("s1")
    /\ Len(QuestionsOf("s1")) = 2
    /\ DOMAIN flash_forecasts["s1"] = {"1"}
    /\ DOMAIN flash_lite_forecasts["s1"] = {"0"}
    /\ DOMAIN all_scores["flash"]["s1"] = {"1"}
    /\ DOMAIN all_scores["flash_lite"]["s1"] = {"0"}
    /\ "s2" \in DOMAIN all_scores["flash"]

-----------------------------------------------------------------------------
(* Claim C14: the iteration order of results.                              *)

\* The index of the question index string k.
KeyIdx(k) == CHOOSE i \in 0..(Len(IdxStr) - 1) : str(i) = k

\* The row of model m for story s, from the inputs.
ExpectedRow(m, s) ==
    [k \in QuestionKeys(s) \cap DOMAIN ForecastsOf(m)[s] |->
        calculate_log_score(ForecastsOf(m)[s][k],
                            QuestionsOf(s)[KeyIdx(k) + 1]["answer"]).value]

\* The stories model m has a score for, from the inputs.
ScoredStories(m) ==
    {s \in DOMAIN results :
        /\ ~ErrorFlagged(s)
        /\ Joined(s)
        /\ QuestionKeys(s) \cap DOMAIN ForecastsOf(m)[s] # {}}

\* The outputs that no iteration order can change, from the inputs.
OrderFreeOutputs ==
    /\ \A m \in {"flash", "flash_lite"} :
           /\ DOMAIN all_scores[m] = ScoredStories(m)
           /\ \A s \in ScoredStories(m) : all_scores[m][s] = ExpectedRow(m, s)
    /\ DOMAIN story_avg_scores = ScoredStories("flash")
    /\ \A s \in ScoredStories("flash") :
           story_avg_scores[s] = np_mean(ExpectedFor("flash", s, 0))
    /\ DOMAIN story_titles = {s \in DOMAIN results : ~ErrorFlagged(s)}
    /\ \A s \in DOMAIN story_titles :
           story_titles[s] = IF "Title" \in DOMAIN results[s]
                             THEN results[s]["Title"] ELSE "Story " \o s

\* The averages analyze_predictions gives when results is iterated in the
\* order given.
ModelAvgIn(order) ==
    [m \in {"flash", "flash_lite"} |-> np_mean(ExpectedFlat(m, order))]

TagAvgIn(order) ==
    LET lists == CollectTags(EmptyDict, KeysInOrder(order, story_avg_scores),
                             story_avg_scores)
    IN  [t \in DOMAIN lists |-> np_mean(lists[t])]

\* The doubles of the log scores of model m for the questions of s from
\* index i on, from the inputs.
RECURSIVE ExpectedForFloat64(_, _, _)
ExpectedForFloat64(m, s, i) ==
    IF i >= Len(QuestionsOf(s)) THEN <<>>
    ELSE IF str(i) \in DOMAIN ForecastsOf(m)[s]
         THEN <<calculate_log_score_float64(ForecastsOf(m)[s][str(i)],
                                            QuestionsOf(s)[i + 1]["answer"])>>
              \o ExpectedForFloat64(m, s, i + 1)
         ELSE ExpectedForFloat64(m, s, i + 1)

\* The same for the joined stories of order, story after story.
RECURSIVE ExpectedFlatFloat64(_, _)
ExpectedFlatFloat64(m, order) ==
    IF order = <<>> THEN <<>>
    ELSE IF ~ErrorFlagged(Head(order)) /\ Joined(Head(order))
         THEN ExpectedForFloat64(m, Head(order), 0)
              \o ExpectedFlatFloat64(m, Tail(order))
         ELSE ExpectedFlatFloat64(m, Tail(order))

\* The doubles of all_scores[m][s], from the inputs.
ExpectedRowFloat64(m, s) ==
    [k \in QuestionKeys(s) \cap DOMAIN ForecastsOf(m)[s] |->
        calculate_log_score_float64(ForecastsOf(m)[s][k],
                                    QuestionsOf(s)[KeyIdx(k) + 1]["answer"])]

\* The doubles that no iteration order can change: every score, and every
\* story average, which is a mean over the questions of one story in the
\* order of its list.
OrderFreeFloat64 ==
    /\ \A m \in {"flash", "flash_lite"} :
           /\ DOMAIN float64.all_scores[m] = ScoredStories(m)
           /\ \A s \in ScoredStories(m) :
                  float64.all_scores[m][s] = ExpectedRowFloat64(m, s)
    /\ DOMAIN float64.story_avg_scores = ScoredStories("flash")
    /\ \A s \in ScoredStories("flash") :
           float64.story_avg_scores[s] =
               np_mean_float64(ExpectedForFloat64("flash", s, 0))

\* The lists np.mean is handed when results is iterated in the order given:
\* the flat list of a model, and the pool of every tag.
ModelScoresFloat64In(order) ==
    [m \in {"flash", "flash_lite"} |-> ExpectedFlatFloat64(m, order)]

TagScoresFloat64In(order) ==
    CollectTags(EmptyDict, KeysInOrder(order, float64.story_avg_scores),
                float64.story_avg_scores)

\* The doubles of the averages for that order.
ModelAvgFloat64In(order) ==
    [m \in {"flash", "flash_lite"} |-> np_mean_float64(ModelScoresFloat64In(order)[m])]

TagAvgFloat64In(order) ==
    [t \in DOMAIN TagScoresFloat64In(order) |->
        np_mean_float64(TagScoresFloat64In(order)[t])]

\* C14: whatever the iteration order of results, analyze_predictions returns
\* the all_scores, story_avg_scores, model_avg_scores, tag_avg_scores and
\* story_titles it returns for the order s1, s2: the same keys and the same
\* floats, bit for bit.
C14_OrderIndependent ==
    pc = "done" =>
        /\ OrderFreeOutputs
        /\ OrderFreeFloat64
        /\ float64.model_avg_scores = ModelAvgFloat64In(<<"s1", "s2">>)
        /\ float64.tag_avg_scores = TagAvgFloat64In(<<"s1", "s2">>)

\* x is of smaller magnitude than y.
Float64Smaller(x, y) ==
    \/ x[1] < y[1]
    \/ x[1] = y[1] /\ x[2] < y[2]
    \/ x[1] = y[1] /\ x[2] = y[2] /\ x[3] < y[3]

\* |x - y| in units of 2^-64, as <<a, b, c>>.
Float64Distance(x, y) ==
    LET big == IF Float64Smaller(x, y) THEN y ELSE x
        small == IF Float64Smaller(x, y) THEN x ELSE y
        c == big[3] - small[3]
        b == big[2] - small[2] - (IF c < 0 THEN 1 ELSE 0)
        a == big[1] - small[1] - (IF b < 0 THEN 1 ELSE 0)
    IN  <<a, IF b < 0 THEN b + Limb ELSE b, IF c < 0 THEN c + Limb ELSE c>>

\* The item of largest magnitude of a list of doubles, 0.0 for the empty list.
RECURSIVE Float64Largest(_)
Float64Largest(scores) ==
    IF scores = <<>> THEN Float64Zero
    ELSE LET rest == Float64Largest(Tail(scores))
         IN  IF Float64Smaller(rest, Head(scores)) THEN Head(scores) ELSE rest

\* x and y are the means of the same scores in two orders, up to the
\* rounding of the float additions and of the division: both nan, or apart
\* by at most Len(scores) * 2^-51 times the largest magnitude among scores
\* (the bound is rounded down to a multiple of 2^-19).
SameUpToRounding(x, y, scores) ==
    IF x = Float64NaN \/ y = Float64NaN THEN x = y
    ELSE LET n == Len(scores)
             largest == Float64Largest(scores)
             product == Carried(<<n * largest[1], n * largest[2],
                                  n * largest[3]>>)
             distance == Float64Distance(x, y)
         IN  /\ distance[1] = 0
             /\ distance[2] = 0
             /\ distance[3] <= product[1] \div 8

\* a and b hold the same items, each as many times.
SameItems(a, b) ==
    /\ Len(a) = Len(b)
    /\ \A x \in SeqRange(a) :
           Cardinality({i \in 1..Len(a) : a[i] = x})
               = Cardinality({i \in 1..Len(b) : b[i] = x})

\* C14, amended: whatever the iteration order of results, all_scores,
\* story_avg_scores and story_titles are those of the order s1, s2, bit for
\* bit, and so are the keys of model_avg_scores and of tag_avg_scores; each
\* model average and each tag average is the float mean of the same numbers
\* as for the order s1, s2, taken in another order, and is the same float up
\* to rounding: the same millionth, and apart by no more than n * 2^-51
\* times the largest magnitude among the n numbers averaged.
C14_OrderIndependentUpToRounding ==
    pc = "done" =>
        /\ OrderFreeOutputs
        /\ OrderFreeFloat64
        /\ \A m \in {"flash", "flash_lite"} :
               /\ model_avg_scores[m] = ModelAvgIn(<<"s1", "s2">>)[m]
               /\ SameItems(model_all_scores_float64(m),
                            ModelScoresFloat64In(<<"s1", "s2">>)[m])
               /\ SameUpToRounding(float64.model_avg_scores[m],
                                   ModelAvgFloat64In(<<"s1", "s2">>)[m],
                                   model_all_scores_float64(m))
        /\ DOMAIN tag_avg_scores = DOMAIN TagAvgIn(<<"s1", "s2">>)
        /\ DOMAIN float64.tag_avg_scores = DOMAIN TagAvgFloat64In(<<"s1", "s2">>)
        /\ \A t \in DOMAIN tag_avg_scores :
               /\ tag_avg_scores[t] = TagAvgIn(<<"s1", "s2">>)[t]
               /\ SameItems(float64.tag_scores[t],
                            TagScoresFloat64In(<<"s1", "s2">>)[t])
               /\ SameUpToRounding(float64.tag_avg_scores[t],
                                   TagAvgFloat64In(<<"s1", "s2">>)[t],
                                   float64.tag_scores[t])

\* The call has returned for results iterated s2 first, with both stories
\* scored for both models and in the pool of one tag, and the float mean of
\* the scores of flash_lite is not the float the order s1, s2 gives.
C14_Witness ==
    /\ pc = "done"
    /\ results_order = <<"s2", "s1">>
    /\ ScoredStories("flash") = {"s1", "s2"}
    /\ ScoredStories("flash_lite") = {"s1", "s2"}
    /\ Len(QuestionsOf("s1")) = MaxQuestions
    /\ Len(QuestionsOf("s2")) = MaxQuestions
    /\ "mystery" \in DOMAIN tag_avg_scores
    /\ Len(tag_scores["mystery"]) >= 2
    /\ float64.model_avg_scores["flash_lite"]
           # ModelAvgFloat64In(<<"s1", "s2">>)["flash_lite"]

-----------------------------------------------------------------------------
(* Claim C15: the ranking of the stories.                                  *)

\* The position of story s in the iteration order of story_avg_scores.
PosOf(s) == CHOOSE i \in 1..Len(results_order) : results_order[i] = s

\* The story ids of a printed list.
Listed(list) == {list[i][1] : i \in 1..Len(list)}

\* x is at least as good as y for a list: as high for the most predictable
\* stories, as low for the least predictable ones.
AsGood(x, y, highest) == IF highest THEN x >= y ELSE x <= y

\* list holds the TopK best stories, best first, each once and with its
\* average.
IsRanking(list, highest) ==
    /\ Len(list) = Min(TopK, Cardinality(DOMAIN story_avg_scores))
    /\ \A i \in 1..Len(list) :
           /\ list[i][1] \in DOMAIN story_avg_scores
           /\ list[i][2] = story_avg_scores[list[i][1]]
    /\ \A i, j \in 1..Len(list) :
           i < j => /\ list[i][1] # list[j][1]
                    /\ AsGood(list[i][2], list[j][2], highest)
    /\ \A s \in Listed(list) : \A u \in DOMAIN story_avg_scores \ Listed(list) :
           AsGood(story_avg_scores[s], story_avg_scores[u], highest)

\* The stories of equal average are listed in iteration order.
TiesInIterationOrder(list) ==
    \A i, j \in 1..Len(list) :
        (i < j /\ list[i][2] = list[j][2]) => PosOf(list[i][1]) < PosOf(list[j][1])

\* C15: in main and in main_2, the most predictable list holds the stories
\* of the highest averages in descending order, the least predictable list
\* those of the lowest averages in ascending order, and in both lists the
\* stories of equal average come in the iteration order of the mapping.
C15_RankedWithStableTies ==
    entry # "none" =>
        /\ IsRanking(top_stories, TRUE)
        /\ IsRanking(bottom_stories, FALSE)
        /\ TiesInIterationOrder(top_stories)
        /\ TiesInIterationOrder(bottom_stories)

-----------------------------------------------------------------------------
(* Claim C16: the answers of the results file.                             *)

\* C16: every answer resolve_questions writes into the results file is
\* "yes" or "no"; an ambiguous, differently cased or free-text answer and
\* the value of a failed resolution are not written.
C16_WrittenAnswersAreYesOrNo ==
    (stage = "resolve_questions" /\ main_pc = "written") =>
        \A s \in DOMAIN written :
            "questions" \in DOMAIN written[s] =>
                \A i \in 1..Len(written[s].questions) :
                    written[s].questions[i].answer \in {"yes", "no"}

-----------------------------------------------------------------------------
(* Claim C17: the semaphore.                                               *)

\* No more tasks are inside than the semaphore has slots, and every slot is
\* free, held by a task inside or handed to a waiter that is about to get
\* in.
GateSafe ==
    /\ gate.inside <= max_concurrent_tasks(stage)
    /\ semaphore >= 0
    /\ semaphore + gate.woken + gate.inside = max_concurrent_tasks(stage)

\* Every task of the run has got in and has ended by itself: it has
\* returned, or an exception has left it; none is cancelled or left waiting.
GateAllCompleted == gate.done + gate.raised = GateTasks

\* C17: at every point of a stage's run at most N tasks are inside the
\* semaphore-guarded section (N = 50 in predict_questions, 20 in the other
\* stages), a task that leaves it, failed or not, has released its slot,
\* and every task gets in and completes in the end.
C17_GateBoundedAndLive ==
    /\ [](stage \in Stages => GateSafe)
    /\ <>(stage \in Stages => GateAllCompleted)

-----------------------------------------------------------------------------
(* Claims C18 to C20: what a stage writes.                                 *)

TaskIds == 1..Len(tasks)

\* The call of task t for its result, or the extraction from the response,
\* raises.
Fails(t) ==
    \/ responses[t].generate.raised
    \/ /\ stage = "predict_questions"
       /\ extract_probability_from_response(responses[t].generate.text).raised
    \/ /\ stage = "resolve_questions"
       /\ extract_answer_from_response(responses[t].generate.text).raised

\* The sentinel of the stage.
Sentinel ==
    CASE stage = "create_questions"  -> <<>>
      [] stage = "predict_questions" -> None
      [] stage = "resolve_questions" -> "ambiguous"
      [] stage = "tagging"           -> <<>>

\* What task t returns, from its responses.
FinalResult(t) ==
    IF stage = "tagging" /\ ~check_short_story_async(responses[t].check)
    THEN <<>>
    ELSE TaskResult(stage, responses[t].generate)

\* The tasks whose result is no sentinel.
KeptTasks == {t \in TaskIds : FinalResult(t) # Sentinel}

\* The entries of task t in the list main gathers.
EntriesOf(t) ==
    {i \in 1..Len(gathered) :
        /\ gathered[i].id = tasks[t].data.id
        /\ stage = "predict_questions" =>
               gathered[i].question_idx = tasks[t].question_idx
        /\ stage = "resolve_questions" =>
               gathered[i].question = tasks[t].data.questions[tasks[t].question_idx + 1]}

\* The output file has something of task t.
InOutput(t) ==
    LET s == tasks[t].data.id
    IN  CASE stage = "create_questions" ->
                 \E i \in 1..Len(written) : written[i].id = s
          [] stage = "tagging" ->
                 \E i \in 1..Len(written) : written[i].id = s
          [] stage = "predict_questions" ->
                 /\ s \in DOMAIN written
                 /\ str(tasks[t].question_idx) \in DOMAIN written[s]
          [] stage = "resolve_questions" ->
                 /\ "questions" \in DOMAIN written[s]
                 /\ \E i \in 1..Len(written[s].questions) :
                        written[s].questions[i].question
                            = tasks[t].data.questions[tasks[t].question_idx + 1]

\* The output file is what a run with all its results gives.
OutputComplete ==
    /\ \A t \in TaskIds : InOutput(t) <=> t \in KeptTasks
    /\ stage \in {"create_questions", "tagging"} =>
           Len(written) = Cardinality(KeptTasks)
    /\ stage = "resolve_questions" =>
           DOMAIN written = {metadata[i].id : i \in 1..Len(metadata)}

WrittenOnlyWhenComplete ==
    /\ writes <= 1
    /\ writes = 0 => (main_pc # "written" /\ written = <<>>)
    /\ writes = 1 =>
           /\ main_pc = "written"
           /\ \A t \in TaskIds : task_pc[t] = "collected"
           /\ completed = <<>>
           /\ OutputComplete

\* main has ended: it has returned after the dump, or an exception has
\* left it.
MainEnded == main_pc \in {"written", "raised"}

\* C18: a stage writes its output file exactly once, after every task has
\* completed and its result has been gathered; before, the file has
\* nothing, what is written is the output of all the tasks, and a run that
\* has ended has written the file.
C18_WrittenOnceAfterAllTasks ==
    stage \in Stages =>
        /\ WrittenOnlyWhenComplete
        /\ MainEnded => writes = 1

\* A task whose call or extraction raised has returned the sentinel, has
\* no entry in the gathered list and nothing in the output file.
FailedTaskLeftOut(t) ==
    /\ \A i \in 1..Len(completed) :
           completed[i].task = t => completed[i].result = Sentinel
    /\ EntriesOf(t) = {}
    /\ main_pc = "written" => ~InOutput(t)

\* A task whose result is no sentinel has its entry once it is gathered,
\* whatever the other tasks did.
GoodTaskKept(t) ==
    /\ task_pc[t] = "collected" => Cardinality(EntriesOf(t)) = 1
    /\ main_pc = "written" => InOutput(t)

\* A task that has returned makes no further call.
NoRetry ==
    \A t \in TaskIds :
        task_pc[t] \in {"returned", "collected"} =>
            task_pc'[t] \in {"returned", "collected"}

\* C19: a task whose remote call or extraction raises is not retried and
\* returns the sentinel of its stage; the sentinel is left out of the
\* gathered list and of the output file, and the other tasks keep their
\* entries.
C19_FailedTaskGivesSentinel ==
    /\ [](stage \in Stages =>
             \A t \in TaskIds :
                 /\ (Fails(t) /\ task_pc[t] \in {"returned", "collected"})
                        => FailedTaskLeftOut(t)
                 /\ t \in KeptTasks => GoodTaskKept(t))
    /\ [][NoRetry]_vars

\* The file is written; the first task's call raised and the second task's
\* answer is in the file.
C19_Witness ==
    /\ main_pc = "written"
    /\ Len(tasks) >= 2
    /\ responses[1].generate.raised
    /\ ~Fails(2)
    /\ 2 \in KeptTasks
    /\ InOutput(2)
    /\ ~InOutput(1)

\* The forecasts file, from the tasks and their responses.
SuccessfulTasks == {t \in TaskIds : forecast_question(responses[t].generate) # None}

ExpectedForecasts ==
    [s \in {tasks[t].data.id : t \in SuccessfulTasks} |->
        [k \in {str(tasks[t].question_idx) :
                   t \in {u \in SuccessfulTasks : tasks[u].data.id = s}} |->
            forecast_question(
                responses[CHOOSE t \in SuccessfulTasks :
                              /\ tasks[t].data.id = s
                              /\ str(tasks[t].question_idx) = k].generate)]]

\* C20: whatever the order the tasks of predict_questions complete in, the
\* forecasts file holds each successful forecast once, under its own story
\* id and question index, and nothing else.
C20_ForecastsIndependentOfOrder ==
    (stage = "predict_questions" /\ main_pc = "written") =>
        /\ written = ExpectedForecasts
        /\ \A t \in SuccessfulTasks : Cardinality(EntriesOf(t)) = 1
        /\ Len(gathered) = Cardinality(SuccessfulTasks)

\* The forecasts file is written; the tasks of two stories with different
\* forecasts completed in the reverse of the order they were created in.
C20_Witness ==
    /\ stage = "predict_questions"
    /\ main_pc = "written"
    /\ Len(tasks) = MaxTasks
    /\ SuccessfulTasks = TaskIds
    /\ gathered[1].id = "s2"
    /\ tasks[1].data.id = "s1"
    /\ gathered[1].answer # gathered[Len(gathered)].answer
    /\ gathered[Len(gathered)].question_idx = 0

====
